---- MODULE Spec2Model ----
(***************************************************************************)
(* Word segmentation of iporsut/mapkhacon: the hash-addressed prefix tree  *)
(* (MakePrefixTree / LoadDict) and the single-pass scanner                 *)
(* (Segmenter.BuildPath, Segmenter.Segment) with its reusable scratch.     *)
(*                                                                         *)
(* Indices are the source's: the edge array `path` and the token array    *)
(* `tokens` are functions on 0..N, a codepoint index i names line[i+1].    *)
(* A line is read one codepoint per loop iteration; BuildPath looks at     *)
(* len(line) and, in iteration i, at line[i] only, so the codepoints are   *)
(* drawn when they are read and `line` holds the ones read so far.         *)
(***************************************************************************)
EXTENDS Integers, Sequences, FiniteSets, TLC

(* ------------------------------ bounds -------------------------------- *)
MaxLineLen == 4
MaxWordLen == 2
MaxWords == 2

(* codepoints used for lines and words *)
KoKai == 3585
SaraAa == 3634
SmallA == 97
Blank == 32
CapA == 65
CapB == 66
CapC == 67
CapD == 68

TextAlphabet == {KoKai, SaraAa}
LineAlphabet == TextAlphabet \cup {SmallA, Blank}
CapAlphabet == {CapA, CapB, CapC, CapD}

(* --------------------------- classifier ------------------------------- *)
IsSpace(ch) ==
    \/ ch = 32
    \/ ch = 10
    \/ ch = 9
    \/ ch = 34
    \/ ch = 40
    \/ ch = 41
    \/ ch = 8220
    \/ ch = 8221

IsLatinLowerOnly(ch) ==
    ch >= 97 /\ ch <= 122

IsLatin(ch) ==
    \/ (ch >= 65 /\ ch <= 90)
    \/ (ch >= 97 /\ ch <= 122)

IsText(ch) == ~IsLatin(ch) /\ ~IsSpace(ch)

(* WordType constants (iota order) *)
Unknow == 0
Space == 1
Latin == 2
Text == 3

(* ---------------------------- prefix tree ----------------------------- *)
(* sort.Strings: byte order of UTF-8, which is codepoint order *)
RECURSIVE StrLess(_, _)
StrLess(a, b) ==
    IF Len(a) = 0 THEN Len(b) > 0
    ELSE IF Len(b) = 0 THEN FALSE
    ELSE IF a[1] # b[1] THEN a[1] < b[1]
    ELSE StrLess(Tail(a), Tail(b))

RECURSIVE InsertSorted(_, _)
InsertSorted(w, ws) ==
    IF Len(ws) = 0 THEN <<w>>
    ELSE IF StrLess(w, ws[1]) THEN <<w>> \o ws
    ELSE <<ws[1]>> \o InsertSorted(w, Tail(ws))

SortStringsKeepOrder(ws) == ws

RECURSIVE SortStrings(_)
SortStrings(ws) ==
    IF Len(ws) = 0 THEN <<>>
    ELSE InsertSorted(ws[1], SortStrings(Tail(ws)))

EmptyTab == [k \in {} |-> [ChildID |-> 0, IsFinal |-> FALSE]]

RECURSIVE InsertRunesLateFinal(_, _, _, _, _)
InsertRunesLateFinal(tab, runes, i, j, rowNo) ==
    IF j >= Len(runes) THEN tab
    ELSE LET isFinal == (j = Len(runes))
             node == <<rowNo, j, runes[j + 1]>>
         IN  IF node \notin DOMAIN tab
             THEN InsertRunesLateFinal(tab @@ (node :> [ChildID |-> i, IsFinal |-> isFinal]),
                                       runes, i, j + 1, i)
             ELSE InsertRunesLateFinal(tab, runes, i, j + 1, tab[node].ChildID)

RECURSIVE InsertRunesRowAlways(_, _, _, _, _)
InsertRunesRowAlways(tab, runes, i, j, rowNo) ==
    IF j >= Len(runes) THEN tab
    ELSE LET isFinal == ((j + 1) = Len(runes))
             node == <<rowNo, j, runes[j + 1]>>
         IN  IF node \notin DOMAIN tab
             THEN InsertRunesRowAlways(tab @@ (node :> [ChildID |-> i, IsFinal |-> isFinal]),
                                       runes, i, j + 1, i)
             ELSE InsertRunesRowAlways(tab, runes, i, j + 1, i)

RECURSIVE InsertRunesAllFinal(_, _, _, _, _)
InsertRunesAllFinal(tab, runes, i, j, rowNo) ==
    IF j >= Len(runes) THEN tab
    ELSE LET node == <<rowNo, j, runes[j + 1]>>
         IN  IF node \notin DOMAIN tab
             THEN InsertRunesAllFinal(tab @@ (node :> [ChildID |-> i, IsFinal |-> TRUE]),
                                      runes, i, j + 1, i)
             ELSE InsertRunesAllFinal(tab, runes, i, j + 1, tab[node].ChildID)

RECURSIVE InsertRunesNodeCounter(_, _, _, _, _)
InsertRunesNodeCounter(tab, runes, i, j, rowNo) ==
    IF j >= Len(runes) THEN tab
    ELSE LET isFinal == ((j + 1) = Len(runes))
             node == <<rowNo, j, runes[j + 1]>>
             fresh == Cardinality(DOMAIN tab) + 1
         IN  IF node \notin DOMAIN tab
             THEN InsertRunesNodeCounter(tab @@ (node :> [ChildID |-> fresh, IsFinal |-> isFinal]),
                                         runes, i, j + 1, fresh)
             ELSE InsertRunesNodeCounter(tab, runes, i, j + 1, tab[node].ChildID)

RECURSIVE InsertRunesOneRow(_, _, _, _, _)
InsertRunesOneRow(tab, runes, i, j, rowNo) ==
    IF j >= Len(runes) THEN tab
    ELSE LET isFinal == ((j + 1) = Len(runes))
             node == <<rowNo, j, runes[j + 1]>>
         IN  IF node \notin DOMAIN tab
             THEN InsertRunesOneRow(tab @@ (node :> [ChildID |-> 0, IsFinal |-> isFinal]),
                                    runes, i, j + 1, 0)
             ELSE InsertRunesOneRow(tab, runes, i, j + 1, tab[node].ChildID)

RECURSIVE InsertRunesOverwrite(_, _, _, _, _)
InsertRunesOverwrite(tab, runes, i, j, rowNo) ==
    IF j >= Len(runes) THEN tab
    ELSE LET isFinal == ((j + 1) = Len(runes))
             node == <<rowNo, j, runes[j + 1]>>
         IN  IF node \notin DOMAIN tab
             THEN InsertRunesOverwrite(tab @@ (node :> [ChildID |-> i, IsFinal |-> isFinal]),
                                       runes, i, j + 1, i)
             ELSE InsertRunesOverwrite([tab EXCEPT ![node] = [ChildID |-> i, IsFinal |-> isFinal]],
                                       runes, i, j + 1, i)

RECURSIVE InsertRunesClearFinal(_, _, _, _, _)
InsertRunesClearFinal(tab, runes, i, j, rowNo) ==
    IF j >= Len(runes) THEN tab
    ELSE LET isFinal == ((j + 1) = Len(runes))
             node == <<rowNo, j, runes[j + 1]>>
         IN  IF node \notin DOMAIN tab
             THEN InsertRunesClearFinal(tab @@ (node :> [ChildID |-> i, IsFinal |-> isFinal]),
                                        runes, i, j + 1, i)
             ELSE InsertRunesClearFinal([tab EXCEPT ![node].IsFinal = isFinal],
                                        runes, i, j + 1, tab[node].ChildID)

(* inner loop of MakePrefixTree for word number i (0-based), from rune j *)
RECURSIVE InsertRunes(_, _, _, _, _)
InsertRunes(tab, runes, i, j, rowNo) ==
    IF j >= Len(runes) THEN tab
    ELSE LET isFinal == ((j + 1) = Len(runes))
             node == <<rowNo, j, runes[j + 1]>>
         IN  IF node \notin DOMAIN tab
             THEN InsertRunes(tab @@ (node :> [ChildID |-> i, IsFinal |-> isFinal]),
                              runes, i, j + 1, i)
             ELSE InsertRunes(tab, runes, i, j + 1, tab[node].ChildID)

RECURSIVE InsertWords(_, _, _)
InsertWords(tab, ws, i) ==
    IF i >= Len(ws) THEN tab
    ELSE InsertWords(InsertRunes(tab, ws[i + 1], i, 0, 0), ws, i + 1)

MakePrefixTree(wordsWithPayload) ==
    InsertWords(EmptyTab, SortStrings(wordsWithPayload), 0)

(* LoadDict: the non-empty lines of the file, sorted, then the same table *)
LoadDict(fileLines) ==
    LET lines == SelectSeq(fileLines, LAMBDA l : Len(l) # 0)
    IN  InsertWords(EmptyTab, SortStrings(lines), 0)

(* ------------------------------ edges --------------------------------- *)
ZeroEdge == [S |-> 0, WordCount |-> 0, UnkCount |-> 0]
ZeroPointer == [NodeID |-> 0, Offset |-> 0, IsFinal |-> FALSE]
NoBestEdge == [Edge |-> ZeroEdge, Valid |-> FALSE]
ZeroWord == [Left |-> 0, Start |-> 0, Type |-> Unknow]

NullEdgeSet(edge) == [Edge |-> edge, Valid |-> TRUE]

InPath(p, k) == k \in DOMAIN p
PathAt(p, k) == IF k \in DOMAIN p THEN p[k] ELSE ZeroEdge

AppendEdgeAtKeep(w, p, i) ==
    [word |-> [w EXCEPT !.Type = Unknow, !.Left = i],
     path |-> p,
     ok |-> InPath(p, w.Start) /\ InPath(p, i)]

AppendEdgeAtStart(w, p, i) ==
    LET source == PathAt(p, w.Start)
        ok == InPath(p, w.Start) /\ InPath(p, i)
        edge == [S |-> w.Start,
                 WordCount |-> source.WordCount + 1,
                 UnkCount |-> source.UnkCount]
    IN  [word |-> [w EXCEPT !.Type = Unknow, !.Left = i],
         path |-> IF ok THEN [p EXCEPT ![w.Start] = edge, ![i] = edge] ELSE p,
         ok |-> ok]

(* Word.AppendEdgeAt: w.Path is the segmenter's path (same backing array) *)
AppendEdgeAt(w, p, i) ==
    LET source == PathAt(p, w.Start)
        ok == InPath(p, w.Start) /\ InPath(p, i)
        edge == [S |-> w.Start,
                 WordCount |-> source.WordCount + 1,
                 UnkCount |-> source.UnkCount]
    IN  [word |-> [w EXCEPT !.Type = Unknow, !.Left = i],
         path |-> IF InPath(p, i) THEN [p EXCEPT ![i] = edge] ELSE p,
         ok |-> ok]

GetEdgeSameCount(w, p) ==
    LET source == PathAt(p, w.Start)
    IN  [word |-> [w EXCEPT !.Type = Unknow],
         edge |-> [S |-> w.Start,
                   WordCount |-> source.WordCount,
                   UnkCount |-> source.UnkCount],
         ok |-> InPath(p, w.Start)]

(* Word.GetEdge *)
GetEdge(w, p) ==
    LET source == PathAt(p, w.Start)
    IN  [word |-> [w EXCEPT !.Type = Unknow],
         edge |-> [S |-> w.Start,
                   WordCount |-> source.WordCount + 1,
                   UnkCount |-> source.UnkCount],
         ok |-> InPath(p, w.Start)]

(* ------------------------- Segmenter.BuildPath ------------------------ *)
(* allocation at the top of BuildPath: a nil path is made, a used one is   *)
(* truncated and refilled with length+1 zero edges                         *)
RECURSIVE AppendZeroEdges(_, _)
AppendZeroEdges(s, n) ==
    IF n = 0 THEN s ELSE AppendZeroEdges(Append(s, ZeroEdge), n - 1)

ResetPath(oldPath, length) ==
    LET asSeq == IF oldPath = <<>>
                 THEN [k \in 1..(length + 1) |-> ZeroEdge]
                 ELSE AppendZeroEdges(SubSeq([k \in 1..Cardinality(DOMAIN oldPath) |-> oldPath[k - 1]], 1, 0),
                                      length + 1)
    IN  [k \in 0..length |-> asSeq[k + 1]]

ResetPointersKeep(oldPointers) == oldPointers

ResetPointers(oldPointers) ==
    IF oldPointers # <<>> THEN SubSeq(oldPointers, 1, 0) ELSE oldPointers

RECURSIVE AdvancePointersKeepAll(_, _, _, _, _)
AdvancePointersKeepAll(ptrs, j, ch, dict, kept) ==
    IF j > Len(ptrs) THEN kept
    ELSE LET p == ptrs[j]
             node == <<p.NodeID, p.Offset, ch>>
         IN  IF node \notin DOMAIN dict
             THEN AdvancePointersKeepAll(ptrs, j + 1, ch, dict, Append(kept, p))
             ELSE AdvancePointersKeepAll(ptrs, j + 1, ch, dict,
                      Append(kept, [NodeID |-> dict[node].ChildID,
                                    Offset |-> p.Offset + 1,
                                    IsFinal |-> dict[node].IsFinal]))

RECURSIVE AdvancePointersBreak(_, _, _, _, _)
AdvancePointersBreak(ptrs, j, ch, dict, kept) ==
    IF j > Len(ptrs) THEN kept
    ELSE LET p == ptrs[j]
             node == <<p.NodeID, p.Offset, ch>>
         IN  IF node \notin DOMAIN dict
             THEN kept
             ELSE AdvancePointersBreak(ptrs, j + 1, ch, dict,
                      Append(kept, [NodeID |-> dict[node].ChildID,
                                    Offset |-> p.Offset + 1,
                                    IsFinal |-> dict[node].IsFinal]))

(* the compaction loop over sm.pointers for codepoint ch *)
RECURSIVE AdvancePointers(_, _, _, _, _)
AdvancePointers(ptrs, j, ch, dict, kept) ==
    IF j > Len(ptrs) THEN kept
    ELSE LET p == ptrs[j]
             node == <<p.NodeID, p.Offset, ch>>
         IN  IF node \notin DOMAIN dict
             THEN AdvancePointers(ptrs, j + 1, ch, dict, kept)
             ELSE AdvancePointers(ptrs, j + 1, ch, dict,
                      Append(kept, [NodeID |-> dict[node].ChildID,
                                    Offset |-> p.Offset + 1,
                                    IsFinal |-> dict[node].IsFinal]))

MapIndexStoring(m, node) ==
    IF node \in DOMAIN m THEN m
    ELSE m @@ (node :> [ChildID |-> 0, IsFinal |-> FALSE])

(* childNode, found := sm.dict[node]: the two-value read of a map leaves   *)
(* the map as it is, also when the key is absent                           *)
MapIndex(m, node) == m

(* sm.dict after the lookups of the compaction loop *)
RECURSIVE DictAfterLookups(_, _, _, _)
DictAfterLookups(trie, ptrs, j, ch) ==
    IF j > Len(ptrs) THEN trie
    ELSE DictAfterLookups(MapIndex(trie, <<ptrs[j].NodeID, ptrs[j].Offset, ch>>),
                          ptrs, j + 1, ch)

(* sm.dict after one iteration: only the Text case reads it *)
DictAfterIter(trie, ptrs, ch) ==
    IF IsText(ch) THEN DictAfterLookups(trie, Append(ptrs, ZeroPointer), 1, ch)
    ELSE trie

CandidateEdgeOffByOne(pointer, p, i) ==
    LET s == i - pointer.Offset
        source == PathAt(p, s)
    IN  [S |-> s, WordCount |-> source.WordCount + 1, UnkCount |-> source.UnkCount]

CandidateEdge(pointer, p, i) ==
    LET s == 1 + i - pointer.Offset
        source == PathAt(p, s)
    IN  [S |-> s, WordCount |-> source.WordCount + 1, UnkCount |-> source.UnkCount]

SupersedesAlways(edge, bestEdge) == TRUE

SupersedesMoreWords(edge, bestEdge) ==
    \/ ~bestEdge.Valid
    \/ edge.UnkCount < bestEdge.Edge.UnkCount
    \/ (edge.UnkCount = bestEdge.Edge.UnkCount /\
        edge.WordCount >= bestEdge.Edge.WordCount)

SupersedesFirstWins(edge, bestEdge) ==
    \/ ~bestEdge.Valid
    \/ edge.UnkCount < bestEdge.Edge.UnkCount
    \/ (edge.UnkCount = bestEdge.Edge.UnkCount /\
        edge.WordCount < bestEdge.Edge.WordCount)

Supersedes(edge, bestEdge) ==
    \/ ~bestEdge.Valid
    \/ edge.UnkCount < bestEdge.Edge.UnkCount
    \/ (edge.UnkCount = bestEdge.Edge.UnkCount /\
        edge.WordCount <= bestEdge.Edge.WordCount)

(* bestEdge after the candidate of one pointer has been compared *)
PickOne(pointer, edge, p, best) ==
    IF pointer.IsFinal
    THEN [best |-> IF Supersedes(edge, best.best) THEN NullEdgeSet(edge) ELSE best.best,
          ok |-> best.ok /\ InPath(p, edge.S)]
    ELSE best

(* the loop over the retained pointers that picks bestEdge *)
RECURSIVE PickBestEdge(_, _, _, _, _)
PickBestEdge(ptrs, j, p, i, best) ==
    IF j > Len(ptrs) THEN best
    ELSE PickBestEdge(ptrs, j + 1, p, i,
             PickOne(ptrs[j], CandidateEdge(ptrs[j], p, i), p, best))

(* the `if word.Type == ... { word.AppendEdgeAt(i) }` that opens a case *)
FlushIf(cond, w, p, i) ==
    IF cond THEN AppendEdgeAt(w, p, i)
    ELSE [word |-> w, path |-> p, ok |-> TRUE]

(* if word.Type != type { word.Start = i; word.Type = type } *)
OpenRun(w, type, i) ==
    IF w.Type # type THEN [w EXCEPT !.Start = i, !.Type = type] ELSE w

(* if i == length-1 { bestEdge.Set(word.GetEdge()) } *)
EndOfLineEdge(a, g, ptrs) ==
    [path |-> a.path, pointers |-> ptrs, word |-> g.word,
     best |-> NullEdgeSet(g.edge), ok |-> a.ok /\ g.ok]

RunCaseEnd(a, w2, ptrs, i, len) ==
    IF i = len - 1
    THEN EndOfLineEdge(a, GetEdge(w2, a.path), ptrs)
    ELSE [path |-> a.path, pointers |-> ptrs, word |-> w2,
          best |-> NoBestEdge, ok |-> a.ok]

RunCase(a, type, ptrs, i, len) ==
    RunCaseEnd(a, OpenRun(a.word, type, i), ptrs, i, len)

LatinCaseNoFlush(p, ptrs, w, i, len) ==
    RunCase([word |-> w, path |-> p, ok |-> TRUE], Latin, ptrs, i, len)

(* case IsLatin(ch) *)
LatinCase(p, ptrs, w, i, len) ==
    RunCase(FlushIf(w.Type = Space, w, p, i), Latin, ptrs, i, len)

(* case IsSpace(ch) *)
SpaceCase(p, ptrs, w, i, len) ==
    RunCase(FlushIf(w.Type = Latin, w, p, i), Space, ptrs, i, len)

TextCaseResult(a, kept, picked) ==
    [path |-> a.path, pointers |-> kept,
     word |-> [a.word EXCEPT !.Type = Text],
     best |-> picked.best, ok |-> a.ok /\ picked.ok]

TextCaseMatch(a, kept, i) ==
    TextCaseResult(a, kept,
        PickBestEdge(kept, 1, a.path, i, [best |-> NoBestEdge, ok |-> TRUE]))

TextCaseSpawnTwice(p, ptrs, w, i, ch, trie) ==
    TextCaseMatch(FlushIf(w.Type = Space \/ w.Type = Latin, w, p, i),
                  AdvancePointers(Append(Append(ptrs, ZeroPointer), ZeroPointer),
                                  1, ch, trie, <<>>),
                  i)

(* default case: a Text codepoint *)
TextCase(p, ptrs, w, i, ch, trie) ==
    TextCaseMatch(FlushIf(w.Type = Space \/ w.Type = Latin, w, p, i),
                  AdvancePointers(Append(ptrs, ZeroPointer), 1, ch, trie, <<>>),
                  i)

(* the switch on the class of ch *)
ClassCase(p, ptrs, w, i, ch, len, trie) ==
    IF IsLatin(ch) THEN LatinCase(p, ptrs, w, i, len)
    ELSE IF IsSpace(ch) THEN SpaceCase(p, ptrs, w, i, len)
    ELSE TextCase(p, ptrs, w, i, ch, trie)

FinishIterUnknownOnly(c, i) ==
    LET source == PathAt(c.path, c.word.Left)
        bestEdge == IF ~c.best.Valid
                    THEN [S |-> c.word.Left,
                          WordCount |-> source.WordCount,
                          UnkCount |-> source.UnkCount + 1]
                    ELSE c.best.Edge
    IN  [path |-> IF InPath(c.path, i + 1) THEN [c.path EXCEPT ![i + 1] = bestEdge] ELSE c.path,
         pointers |-> c.pointers,
         word |-> IF ~c.best.Valid THEN c.word ELSE [c.word EXCEPT !.Left = i + 1],
         ok |-> /\ c.ok
                /\ (c.best.Valid \/ InPath(c.path, c.word.Left))
                /\ InPath(c.path, i + 1)]

FinishIterLeftAlways(c, i) ==
    LET source == PathAt(c.path, c.word.Left)
        bestEdge == IF ~c.best.Valid
                    THEN [S |-> c.word.Left,
                          WordCount |-> source.WordCount + 1,
                          UnkCount |-> source.UnkCount + 1]
                    ELSE c.best.Edge
    IN  [path |-> IF InPath(c.path, i + 1) THEN [c.path EXCEPT ![i + 1] = bestEdge] ELSE c.path,
         pointers |-> c.pointers,
         word |-> [c.word EXCEPT !.Left = i + 1],
         ok |-> /\ c.ok
                /\ (c.best.Valid \/ InPath(c.path, c.word.Left))
                /\ InPath(c.path, i + 1)]

(* the unknown fallback, or word.Left = i + 1, and sm.path[i+1] = bestEdge *)
FinishIter(c, i) ==
    LET source == PathAt(c.path, c.word.Left)
        bestEdge == IF ~c.best.Valid
                    THEN [S |-> c.word.Left,
                          WordCount |-> source.WordCount + 1,
                          UnkCount |-> source.UnkCount + 1]
                    ELSE c.best.Edge
    IN  [path |-> IF InPath(c.path, i + 1) THEN [c.path EXCEPT ![i + 1] = bestEdge] ELSE c.path,
         pointers |-> c.pointers,
         word |-> IF ~c.best.Valid THEN c.word ELSE [c.word EXCEPT !.Left = i + 1],
         ok |-> /\ c.ok
                /\ (c.best.Valid \/ InPath(c.path, c.word.Left))
                /\ InPath(c.path, i + 1)]

(* one iteration of `for i, ch := range line` *)
BuildPathIter(p, ptrs, w, i, ch, len, trie) ==
    FinishIter(ClassCase(p, ptrs, w, i, ch, len, trie), i)

(* --------------- Segmenter.BuildPath, flag-based variant -------------- *)
(* the variant of src/main.go keeps the scan registers in the Segmenter    *)
(* struct (leftBoundary, startLatin, foundLatin, startSpace, foundSpace,   *)
(* bestEdge, foundBestEdge), so they outlive a call                        *)
ZeroFlags ==
    [leftBoundary |-> 0, startLatin |-> 0, foundLatin |-> FALSE,
     startSpace |-> 0, foundSpace |-> FALSE,
     bestEdge |-> ZeroEdge, foundBestEdge |-> FALSE]

(* the assignments at the top of BuildPath: foundSpace, bestEdge and       *)
(* foundBestEdge are not among them                                        *)
ResetFlags(r) ==
    [r EXCEPT !.leftBoundary = 0, !.startLatin = 0, !.foundLatin = FALSE,
              !.startSpace = 0]

RunEdge(p, start) ==
    [S |-> start,
     WordCount |-> PathAt(p, start).WordCount + 1,
     UnkCount |-> PathAt(p, start).UnkCount]

(* sm.path[i] = Edge{S: start, source.WordCount + 1, source.UnkCount} *)
ReplaceLastEdge(p, start, i) ==
    [path |-> IF InPath(p, i) THEN [p EXCEPT ![i] = RunEdge(p, start)] ELSE p,
     ok |-> InPath(p, start) /\ InPath(p, i)]

Flushed(a, r, ok) == [path |-> a.path, flags |-> r, ok |-> ok /\ a.ok]

(* if sm.foundSpace { ... }; st is [path, flags, ok] *)
FlushSpace(st, i) ==
    IF st.flags.foundSpace
    THEN Flushed(ReplaceLastEdge(st.path, st.flags.startSpace, i),
                 [st.flags EXCEPT !.foundSpace = FALSE, !.leftBoundary = i], st.ok)
    ELSE st

(* if sm.foundLatin { ... } *)
FlushLatin(st, i) ==
    IF st.flags.foundLatin
    THEN Flushed(ReplaceLastEdge(st.path, st.flags.startLatin, i),
                 [st.flags EXCEPT !.foundLatin = FALSE, !.leftBoundary = i], st.ok)
    ELSE st

(* if !sm.foundLatin { sm.startLatin = i; sm.foundLatin = true } *)
OpenLatin(st, i) ==
    IF ~st.flags.foundLatin
    THEN [st EXCEPT !.flags.startLatin = i, !.flags.foundLatin = TRUE]
    ELSE st

(* if !sm.foundSpace { sm.startSpace = i; sm.foundSpace = true } *)
OpenSpace(st, i) ==
    IF ~st.flags.foundSpace
    THEN [st EXCEPT !.flags.startSpace = i, !.flags.foundSpace = TRUE]
    ELSE st

FlagLatinEnd(st, ptrs, i, len) ==
    IF i = len - 1
    THEN [path |-> st.path, pointers |-> ptrs,
          flags |-> [st.flags EXCEPT !.bestEdge = RunEdge(st.path, st.flags.startLatin),
                                     !.foundBestEdge = TRUE,
                                     !.foundLatin = FALSE],
          ok |-> st.ok /\ InPath(st.path, st.flags.startLatin)]
    ELSE [path |-> st.path, pointers |-> ptrs, flags |-> st.flags, ok |-> st.ok]

FlagSpaceEnd(st, ptrs, i, len) ==
    IF i = len - 1
    THEN [path |-> st.path, pointers |-> ptrs,
          flags |-> [st.flags EXCEPT !.bestEdge = RunEdge(st.path, st.flags.startSpace),
                                     !.foundBestEdge = TRUE,
                                     !.foundSpace = FALSE],
          ok |-> st.ok /\ InPath(st.path, st.flags.startSpace)]
    ELSE [path |-> st.path, pointers |-> ptrs, flags |-> st.flags, ok |-> st.ok]

(* if IsLatin(ch) *)
FlagLatinCase(p, ptrs, r, i, len) ==
    FlagLatinEnd(OpenLatin(FlushSpace([path |-> p, flags |-> r, ok |-> TRUE], i), i),
                 ptrs, i, len)

(* else if IsSpace(ch) *)
FlagSpaceCase(p, ptrs, r, i, len) ==
    FlagSpaceEnd(OpenSpace(FlushLatin([path |-> p, flags |-> r, ok |-> TRUE], i), i),
                 ptrs, i, len)

FlagTextResult(st, kept, picked) ==
    [path |-> st.path, pointers |-> kept,
     flags |-> [st.flags EXCEPT !.bestEdge = picked.best.Edge,
                                !.foundBestEdge = picked.best.Valid],
     ok |-> st.ok /\ picked.ok]

FlagTextMatch(st, kept, i) ==
    FlagTextResult(st, kept,
        PickBestEdge(kept, 1, st.path, i,
            [best |-> [Edge |-> st.flags.bestEdge, Valid |-> st.flags.foundBestEdge],
             ok |-> TRUE]))

(* else: a Text codepoint *)
FlagTextCase(p, ptrs, r, i, ch, trie) ==
    FlagTextMatch(FlushLatin(FlushSpace([path |-> p, flags |-> r, ok |-> TRUE], i), i),
                  AdvancePointers(Append(ptrs, ZeroPointer), 1, ch, trie, <<>>),
                  i)

FlagClassCase(p, ptrs, r, i, ch, len, trie) ==
    IF IsLatin(ch) THEN FlagLatinCase(p, ptrs, r, i, len)
    ELSE IF IsSpace(ch) THEN FlagSpaceCase(p, ptrs, r, i, len)
    ELSE FlagTextCase(p, ptrs, r, i, ch, trie)

(* if !sm.foundBestEdge { unknown fallback } else { sm.leftBoundary = i+1 } *)
FlagFallback(c, i) ==
    IF ~c.flags.foundBestEdge
    THEN [c.flags EXCEPT
             !.bestEdge = [S |-> c.flags.leftBoundary,
                           WordCount |-> PathAt(c.path, c.flags.leftBoundary).WordCount + 1,
                           UnkCount |-> PathAt(c.path, c.flags.leftBoundary).UnkCount + 1],
             !.foundBestEdge = TRUE]
    ELSE [c.flags EXCEPT !.leftBoundary = i + 1]

(* sm.path[i+1] = sm.bestEdge *)
FlagFinishIter(c, r3, i) ==
    [path |-> IF InPath(c.path, i + 1) THEN [c.path EXCEPT ![i + 1] = r3.bestEdge] ELSE c.path,
     pointers |-> c.pointers,
     flags |-> r3,
     ok |-> /\ c.ok
            /\ (c.flags.foundBestEdge \/ InPath(c.path, c.flags.leftBoundary))
            /\ InPath(c.path, i + 1)]

FlagIterTail(c, i) == FlagFinishIter(c, FlagFallback(c, i), i)

(* one iteration of `for i, ch := range line` of the flag-based variant *)
FlagBuildPathIter(p, ptrs, r, i, ch, len, trie) ==
    FlagIterTail(FlagClassCase(p, ptrs,
                     [r EXCEPT !.bestEdge = ZeroEdge, !.foundBestEdge = FALSE],
                     i, ch, len, trie), i)

(* ------------------------------- state -------------------------------- *)
VARIABLES
    wordList,   \* the dictionary file's lines as LoadDict sorted them
    dict,       \* Segmenter.dict, the PrefixTree
    path,       \* Segmenter.path; <<>> is nil
    pointers,   \* Segmenter.pointers
    word,       \* BuildPath's local Word (Left, Start, Type; Path is path)
    flags,      \* the scan registers of the flag-based Segmenter struct
    impl,       \* which Segmenter runs: "word" (Word struct) or "flag"
    length,     \* BuildPath's length
    i,          \* BuildPath's loop index
    line,       \* the codepoints of the current line read so far
    tokens,     \* Segment's tokens array
    e,          \* Segment's e
    ti,         \* Segment's i
    ret,        \* the slice Segment returned
    pc,         \* "idle", "scan", "walk", "done", "panic"
    stale,      \* the current call found a used path and live pointers
    fault       \* an index or slice bound was out of range

segVars == <<wordList, dict, impl, path, pointers, word, flags, length, i, line, tokens, e, ti, ret, pc, stale, fault>>

(* a call of MakePrefixTree *)
VARIABLES
    wordsWithPayload,   \* the slice passed in; sort.Strings sorts it in place
    tab,                \* the map being filled
    wi,                 \* the outer loop's i
    tpc                 \* "idle", "sort", "insert", "returned"

trieVars == <<wordsWithPayload, tab, wi, tpc>>

TrieIdle ==
    /\ wordsWithPayload = <<>>
    /\ tab = EmptyTab
    /\ wi = 0
    /\ tpc = "idle"

(* the line-oriented drivers: what they read, collect and write *)
VARIABLES
    stdin,      \* the lines scanner.Scan() yields, in order
    lineNo,     \* the driver's i: the number of lines handed out so far
    result,     \* the map[int]string of line number to joined tokens
    out         \* the codepoints written to standard output

driverVars == <<stdin, lineNo, result, out>>

(* SegmenterWorker *)
VARIABLES
    lineInputCh,    \* the buffered channel of LineInput, capacity NumCPU
    wg,             \* the WaitGroup's counter
    done,           \* whether the done channel is closed
    workers,        \* per worker goroutine: pc, its Segmenter sm, lineInput, result
    rpc             \* Run's position

workerVars == <<lineInputCh, wg, done, workers, rpc>>

(* ConcurrentVersion *)
VARIABLES
    chData,         \* the buffered channel of Data, capacity NumCPU
    goroutines,     \* the MapSegemnt goroutines started and not yet finished
    cj,             \* the collecting loop's j
    cpc             \* ConcurrentVersion's position

concVars == <<chData, goroutines, cj, cpc>>

(* main with a pool of Segmenters and a collecting goroutine *)
VARIABLES
    smw,            \* the buffered channel of *Segmenter, capacity numWorker
    segmenters,     \* the Segmenters InitSegmentWorker made: their scratch
    segmenting,     \* the goroutines main started and that have not returned
    collector,      \* the collecting goroutine's position
    mpc             \* main's position

pooledVars == <<smw, segmenters, segmenting, collector, mpc>>

poolVars == <<driverVars, workerVars, concVars, pooledVars>>

EmptyResult == [k \in {} |-> <<>>]

DriverIdle ==
    /\ stdin = <<>>
    /\ lineNo = 0
    /\ result = EmptyResult
    /\ out = <<>>

WorkerIdle ==
    /\ lineInputCh = <<>>
    /\ wg = 0
    /\ done = FALSE
    /\ workers = <<>>
    /\ rpc = "idle"

ConcIdle ==
    /\ chData = <<>>
    /\ goroutines = {}
    /\ cj = 0
    /\ cpc = "idle"

PooledIdle ==
    /\ smw = <<>>
    /\ segmenters = <<>>
    /\ segmenting = {}
    /\ collector = "idle"
    /\ mpc = "idle"

PoolIdle == DriverIdle /\ WorkerIdle /\ ConcIdle /\ PooledIdle

vars == <<segVars, trieVars, poolVars>>

RECURSIVE SeqsUpTo(_, _)
SeqsUpTo(S, n) ==
    IF n = 0 THEN {<<>>}
    ELSE LET shorter == SeqsUpTo(S, n - 1)
         IN  shorter \cup {Append(q, x) : q \in {r \in shorter : Len(r) = n - 1}, x \in S}

Words == SeqsUpTo(TextAlphabet, MaxWordLen) \ {<<>>}
WordLists == SeqsUpTo(Words, MaxWords)

InitSegmenter(fileLines, variant) ==
    /\ impl = variant
    /\ flags = ZeroFlags
    /\ wordList = SortStrings(SelectSeq(fileLines, LAMBDA l : Len(l) # 0))
    /\ dict = LoadDict(fileLines)
    /\ path = <<>>
    /\ pointers = <<>>
    /\ word = ZeroWord
    /\ length = 0
    /\ i = 0
    /\ line = <<>>
    /\ tokens = <<>>
    /\ e = 0
    /\ ti = 0
    /\ ret = <<>>
    /\ pc = "idle"
    /\ stale = FALSE
    /\ fault = FALSE

Variants == {"word", "flag"}

Init ==
    /\ \E fileLines \in WordLists, variant \in Variants : InitSegmenter(fileLines, variant)
    /\ TrieIdle
    /\ PoolIdle

(* Segment is called with a line of n codepoints: the top of BuildPath.    *)
(* word, tokens, e, i are locals of the new call and start at their zero   *)
(* values; path and pointers are the segmenter's and carry over.           *)
Start(n) ==
    /\ pc \in {"idle", "done"}
    /\ length' = n
    /\ path' = ResetPath(path, n)
    /\ pointers' = ResetPointers(pointers)
    /\ word' = ZeroWord
    /\ flags' = IF impl = "flag" THEN ResetFlags(flags) ELSE flags
    /\ i' = 0
    /\ line' = <<>>
    /\ tokens' = <<>>
    /\ e' = 0
    /\ ti' = 0
    /\ ret' = <<>>
    /\ pc' = "scan"
    /\ stale' = (path # <<>> /\ pointers # <<>>)
    /\ UNCHANGED <<trieVars, poolVars>>
    /\ UNCHANGED <<wordList, dict, impl, fault>>

(* what an iteration leaves in the segmenter; an index out of range panics *)
Scanned(r) ==
    /\ path' = r.path
    /\ pointers' = r.pointers
    /\ fault' = ~r.ok
    /\ pc' = IF r.ok THEN "scan" ELSE "panic"

(* one iteration of BuildPath's loop, on codepoint ch *)
Scan(ch) ==
    /\ pc = "scan"
    /\ impl = "word"
    /\ i < length
    /\ word' = BuildPathIter(path, pointers, word, i, ch, length, dict).word
    /\ Scanned(BuildPathIter(path, pointers, word, i, ch, length, dict))
    /\ i' = i + 1
    /\ line' = Append(line, ch)
    /\ dict' = DictAfterIter(dict, pointers, ch)
    /\ UNCHANGED <<trieVars, poolVars>>
    /\ UNCHANGED <<wordList, impl, flags, length, tokens, e, ti, ret, stale>>

(* the same iteration in the flag-based Segmenter *)
FlagScan(ch) ==
    /\ pc = "scan"
    /\ impl = "flag"
    /\ i < length
    /\ flags' = FlagBuildPathIter(path, pointers, flags, i, ch, length, dict).flags
    /\ Scanned(FlagBuildPathIter(path, pointers, flags, i, ch, length, dict))
    /\ i' = i + 1
    /\ line' = Append(line, ch)
    /\ dict' = DictAfterIter(dict, pointers, ch)
    /\ UNCHANGED <<trieVars, poolVars>>
    /\ UNCHANGED <<wordList, impl, word, length, tokens, e, ti, ret, stale>>

(* BuildPath returned: Segment's set-up before its loop *)
BeginWalk ==
    /\ pc = "scan"
    /\ i = length
    /\ LET l == Cardinality(DOMAIN path)
       IN  /\ tokens' = [k \in 0..(l - 1) |-> <<>>]
           /\ e' = l - 1
           /\ ti' = l - 1
           /\ fault' = ~InPath(path, l - 1)
           /\ pc' = IF InPath(path, l - 1) THEN "walk" ELSE "panic"
    /\ UNCHANGED <<trieVars, poolVars>>
    /\ UNCHANGED <<wordList, dict, impl, path, pointers, word, flags, length, i, line, ret, stale>>

(* string(textRunes[s:e]) *)
TokenSliceShort(textRunes, from, to) == SubSeq(textRunes, from + 2, to)

TokenSlice(textRunes, from, to) == SubSeq(textRunes, from + 1, to)

(* one iteration of `for e > 0` *)
WalkStep ==
    /\ pc = "walk"
    /\ e > 0
    /\ LET s == PathAt(path, e).S
           ok == /\ InPath(path, e)
                 /\ 0 <= s /\ s <= e /\ e <= Len(line)
                 /\ ti \in DOMAIN tokens
       IN  /\ tokens' = IF ok THEN [tokens EXCEPT ![ti] = TokenSlice(line, s, e)] ELSE tokens
           /\ e' = s
           /\ ti' = ti - 1
           /\ fault' = ~ok
           /\ pc' = IF ok THEN "walk" ELSE "panic"
    /\ UNCHANGED <<trieVars, poolVars>>
    /\ UNCHANGED <<wordList, dict, impl, path, pointers, word, flags, length, i, line, ret, stale>>

(* tokens[from:] *)
TokensFromOffByOne(toks, from) ==
    [k \in 1..(Cardinality(DOMAIN toks) - (from - 1)) |-> toks[from - 2 + k]]

TokensFrom(toks, from) ==
    [k \in 1..(Cardinality(DOMAIN toks) - from) |-> toks[from - 1 + k]]

(* return tokens[i+1:] *)
Return ==
    /\ pc = "walk"
    /\ ~(e > 0)
    /\ LET l == Cardinality(DOMAIN tokens)
           ok == 0 <= ti + 1 /\ ti + 1 <= l
       IN  /\ ret' = IF ok THEN TokensFrom(tokens, ti + 1) ELSE ret
           /\ fault' = ~ok
           /\ pc' = IF ok THEN "done" ELSE "panic"
    /\ UNCHANGED <<trieVars, poolVars>>
    /\ UNCHANGED <<wordList, dict, impl, path, pointers, word, flags, length, i, line, tokens, e, ti, stale>>

Next ==
    \/ \E n \in 0..MaxLineLen : Start(n)
    \/ \E ch \in LineAlphabet : Scan(ch)
    \/ \E ch \in LineAlphabet : FlagScan(ch)
    \/ BeginWalk
    \/ WalkStep
    \/ Return

Spec == Init /\ [][Next]_vars

(* the dictionary {"AB", "AC", "D"} and lines over A..D *)
MaxCapLineLen == 5
Scenario2Words == <<<<CapD>>, <<CapA, CapC>>, <<CapA, CapB>>>>
Scenario2Line == <<CapA, CapB, CapD, CapA, CapC>>

InitScenario2 ==
    /\ \E variant \in Variants : InitSegmenter(Scenario2Words, variant)
    /\ TrieIdle
    /\ PoolIdle

NextScenario2 ==
    \/ \E n \in 0..MaxCapLineLen : Start(n)
    \/ \E ch \in CapAlphabet : Scan(ch)
    \/ \E ch \in CapAlphabet : FlagScan(ch)
    \/ BeginWalk
    \/ WalkStep
    \/ Return

SpecScenario2 == InitScenario2 /\ [][NextScenario2]_vars

(* --------------------------- MakePrefixTree --------------------------- *)
MaxTrieWords == 3
MaxTrieWordLen == 2

TrieWords == SeqsUpTo(TextAlphabet, MaxTrieWordLen) \ {<<>>}
TrieWordLists == SeqsUpTo(TrieWords, MaxTrieWords)

InitMakePrefixTree ==
    /\ InitSegmenter(<<>>, "word")
    /\ \E ws \in TrieWordLists : wordsWithPayload = ws
    /\ tab = EmptyTab
    /\ wi = 0
    /\ tpc = "sort"
    /\ PoolIdle

(* sort.Strings(wordsWithPayload); tab := make(map...) *)
SortWords ==
    /\ tpc = "sort"
    /\ wordsWithPayload' = SortStrings(wordsWithPayload)
    /\ tab' = EmptyTab
    /\ wi' = 0
    /\ tpc' = "insert"
    /\ UNCHANGED <<segVars, poolVars>>

(* one iteration of `for i, wordWithPayload := range wordsWithPayload` *)
InsertWord ==
    /\ tpc = "insert"
    /\ wi < Len(wordsWithPayload)
    /\ tab' = InsertRunes(tab, wordsWithPayload[wi + 1], wi, 0, 0)
    /\ wi' = wi + 1
    /\ UNCHANGED <<wordsWithPayload, tpc>>
    /\ UNCHANGED <<segVars, poolVars>>

(* return PrefixTree(tab) *)
ReturnTree ==
    /\ tpc = "insert"
    /\ wi = Len(wordsWithPayload)
    /\ tpc' = "returned"
    /\ UNCHANGED <<wordsWithPayload, tab, wi>>
    /\ UNCHANGED <<segVars, poolVars>>

NextMakePrefixTree ==
    \/ SortWords
    \/ InsertWord
    \/ ReturnTree

SpecMakePrefixTree == InitMakePrefixTree /\ [][NextMakePrefixTree]_vars

(* ------------------------- classes of a line -------------------------- *)
HasText(l) == \E k \in 1..Len(l) : IsText(l[k])
HasLatin(l) == \E k \in 1..Len(l) : IsLatin(l[k])
HasSpace(l) == \E k \in 1..Len(l) : IsSpace(l[k])

RECURSIVE Flatten(_)
Flatten(toks) ==
    IF Len(toks) = 0 THEN <<>> ELSE toks[1] \o Flatten(Tail(toks))

(* C1: the tokens Segment returns, concatenated in order, are the line:   *)
(* the ranges recovered from the back-pointer array tile [0, N) once, with *)
(* no gap, overlap or reordering.                                          *)
TokensTileLine ==
    pc = "done" => Flatten(ret) = line

TokensTileLineWitness ==
    /\ pc = "done"
    /\ Len(ret) >= 3
    /\ HasText(line) /\ HasLatin(line) /\ HasSpace(line)
    /\ Len(wordList) > 0

(* C2: no returned token is empty: every edge on the chain walked from    *)
(* E[N] starts strictly before the position it ends at.                    *)
NoEmptyToken ==
    /\ pc = "walk" /\ e > 0 => PathAt(path, e).S < e
    /\ pc = "walk" => \A k \in DOMAIN tokens : k > ti => Len(tokens[k]) > 0
    /\ pc = "done" => \A k \in 1..Len(ret) : Len(ret[k]) > 0

NoEmptyTokenWitness ==
    /\ pc = "done"
    /\ Len(ret) >= 2
    /\ \E k \in 1..Len(ret) : Len(ret[k]) = 1
    /\ \E k \in 1..Len(ret) : Len(ret[k]) > 1

(* C3: segmentation never fails: no index leaves E[0..N], the walk's e     *)
(* strictly decreases down to 0, and the empty line gives no token.        *)
SegmentNeverFails ==
    /\ ~fault
    /\ pc # "panic"
    /\ pc = "scan" => DOMAIN path = 0..length
    /\ pc = "walk" => /\ 0 <= e /\ e <= length
                      /\ e > 0 => (0 <= PathAt(path, e).S /\ PathAt(path, e).S < e)
                      /\ ti >= e
    /\ pc = "done" => e = 0
    /\ pc = "done" /\ length = 0 => ret = <<>>

SegmentNeverFailsWitness ==
    /\ pc = "done"
    /\ length = 0
    /\ Len(wordList) > 0
    /\ ret = <<>>

SegmentNeverFailsUnknownWitness ==
    /\ pc = "done"
    /\ length = MaxLineLen
    /\ \A k \in 1..Len(line) : IsText(line[k])
    /\ Len(wordList) = 0

(* ---------------- Segment on a newly created Segmenter ---------------- *)
RECURSIVE FoldBuildPath(_, _, _, _, _, _)
FoldBuildPath(p, ptrs, w, k, l, trie) ==
    IF k >= Len(l) THEN p
    ELSE LET r == BuildPathIter(p, ptrs, w, k, l[k + 1], Len(l), trie)
         IN  FoldBuildPath(r.path, r.pointers, r.word, k + 1, l, trie)

RECURSIVE FlagFoldBuildPath(_, _, _, _, _, _)
FlagFoldBuildPath(p, ptrs, r, k, l, trie) ==
    IF k >= Len(l) THEN p
    ELSE LET n == FlagBuildPathIter(p, ptrs, r, k, l[k + 1], Len(l), trie)
         IN  FlagFoldBuildPath(n.path, n.pointers, n.flags, k + 1, l, trie)

(* the path a Segmenter{dict: trie} with nil path and nil pointers builds *)
FreshBuildPath(l, variant, trie) ==
    IF variant = "word"
    THEN FoldBuildPath(ResetPath(<<>>, Len(l)), <<>>, ZeroWord, 0, l, trie)
    ELSE FlagFoldBuildPath(ResetPath(<<>>, Len(l)), <<>>, ResetFlags(ZeroFlags), 0, l, trie)

RECURSIVE WalkTokens(_, _, _)
WalkTokens(p, l, end) ==
    IF ~(end > 0) THEN <<>>
    ELSE LET s == PathAt(p, end).S
         IN  IF 0 <= s /\ s < end
             THEN Append(WalkTokens(p, l, s), TokenSlice(l, s, end))
             ELSE <<>>

FreshSegment(l, variant, trie) ==
    WalkTokens(FreshBuildPath(l, variant, trie), l, Len(l))

(* --------------------------- SegmenterWorker -------------------------- *)
NumCPU == 2
MaxInputLines == 3
Pipe == 124
NewLine == 10

(* the dictionary and the lines the drivers are run on *)
PoolWords == <<<<KoKai, SaraAa>>, <<KoKai>>>>
PoolLines == {<<>>, <<KoKai, SaraAa, KoKai>>, <<KoKai, Blank, SmallA>>}
Inputs == SeqsUpTo(PoolLines, MaxInputLines)

(* strings.Join(tokens, sep) *)
RECURSIVE JoinTokens(_, _)
JoinTokens(toks, sep) ==
    IF Len(toks) = 0 THEN <<>>
    ELSE IF Len(toks) = 1 THEN toks[1]
    ELSE toks[1] \o <<sep>> \o JoinTokens(Tail(toks), sep)

(* BuildPath's loop from iteration k on: the scratch it leaves in sm *)
RECURSIVE BuildPathLoop(_, _, _, _, _, _)
RECURSIVE BuildPathLoopNext(_, _, _, _)
BuildPathLoop(p, ptrs, w, k, l, trie) ==
    IF k >= Len(l) THEN [path |-> p, pointers |-> ptrs]
    ELSE BuildPathLoopNext(BuildPathIter(p, ptrs, w, k, l[k + 1], Len(l), trie), k, l, trie)

BuildPathLoopNext(r, k, l, trie) ==
    BuildPathLoop(r.path, r.pointers, r.word, k + 1, l, trie)

SegmentWalk(b, l) == [sm |-> b, tokens |-> WalkTokens(b.path, l, Len(l))]

(* sm.Segment(textRunes) on a Segmenter with scratch sm: the scratch left   *)
(* and the tokens returned                                                 *)
Segment(sm, l, trie) ==
    SegmentWalk(BuildPathLoop(ResetPath(sm.path, Len(l)), ResetPointers(sm.pointers),
                              ZeroWord, 0, l, trie), l)

ResultSetInArrivalOrder(r, no, str) == r @@ (Cardinality(DOMAIN r) :> str)

(* Result.Set: r.result[lineNo] = line *)
ResultSet(r, no, str) == [k \in DOMAIN r \cup {no} |-> IF k = no THEN str ELSE r[k]]

(* r.result[i]: the empty string when the key is absent *)
ResultAt(r, k) == IF k \in DOMAIN r THEN r[k] ELSE <<>>

(* Result.WriteOut: for i := 0; i < len(r.result); i++ { WriteString } *)
RECURSIVE WriteOut(_, _, _)
WriteOut(r, k, buf) ==
    IF k < Cardinality(DOMAIN r) THEN WriteOut(r, k + 1, buf \o ResultAt(r, k)) ELSE buf

NewSegmenter == [path |-> <<>>, pointers |-> <<>>]

NoLineInput == [lineNo |-> 0, textRunes |-> <<>>]

(* a worker goroutine as StartWorker leaves it: sm := Segmenter{dict}, at   *)
(* the select                                                              *)
StartedWorker == [pc |-> "select", sm |-> NewSegmenter, lineInput |-> NoLineInput, result |-> <<>>]

(* NewSegmenterWorker(dictPath) and once.Do(w.StartWorker) *)
InitSegmenterWorker ==
    /\ InitSegmenter(PoolWords, "word")
    /\ TrieIdle
    /\ ConcIdle
    /\ PooledIdle
    /\ stdin \in Inputs
    /\ lineNo = 0
    /\ result = EmptyResult
    /\ out = <<>>
    /\ lineInputCh = <<>>
    /\ wg = 0
    /\ done = FALSE
    /\ workers = [wc \in 1..NumCPU |-> StartedWorker]
    /\ rpc = "scan"

Received(wc, seg) ==
    workers' = [workers EXCEPT ![wc] =
                   [pc |-> "set", sm |-> seg.sm, lineInput |-> Head(lineInputCh),
                    result |-> JoinTokens(seg.tokens, Pipe) \o <<NewLine>>]]

(* case lineInput := <-w.lineInputCh, and the Segment and Join that follow *)
Receive(wc) ==
    /\ workers[wc].pc = "select"
    /\ lineInputCh # <<>>
    /\ Received(wc, Segment(workers[wc].sm, Head(lineInputCh).textRunes, dict))
    /\ lineInputCh' = Tail(lineInputCh)
    /\ UNCHANGED <<wg, done, rpc>>
    /\ UNCHANGED <<segVars, trieVars, driverVars, concVars, pooledVars>>

(* w.result.Set(lineInput.lineNo, result), under the mutex *)
SetResult(wc) ==
    /\ workers[wc].pc = "set"
    /\ result' = ResultSet(result, workers[wc].lineInput.lineNo, workers[wc].result)
    /\ workers' = [workers EXCEPT ![wc].pc = "wgdone"]
    /\ UNCHANGED <<stdin, lineNo, out>>
    /\ UNCHANGED <<lineInputCh, wg, done, rpc>>
    /\ UNCHANGED <<segVars, trieVars, concVars, pooledVars>>

WgDoneForgotten(wc) ==
    /\ workers[wc].pc = "wgdone"
    /\ wg' = wg
    /\ workers' = [workers EXCEPT ![wc].pc = "select"]
    /\ UNCHANGED <<lineInputCh, done, rpc>>
    /\ UNCHANGED <<segVars, trieVars, driverVars, concVars, pooledVars>>

(* w.wg.Done() *)
WgDone(wc) ==
    /\ workers[wc].pc = "wgdone"
    /\ wg' = wg - 1
    /\ workers' = [workers EXCEPT ![wc].pc = "select"]
    /\ UNCHANGED <<lineInputCh, done, rpc>>
    /\ UNCHANGED <<segVars, trieVars, driverVars, concVars, pooledVars>>

(* case <-w.done: return *)
WorkerReturn(wc) ==
    /\ workers[wc].pc = "select"
    /\ done
    /\ workers' = [workers EXCEPT ![wc].pc = "returned"]
    /\ UNCHANGED <<lineInputCh, wg, done, rpc>>
    /\ UNCHANGED <<segVars, trieVars, driverVars, concVars, pooledVars>>

(* scanner.Scan() is true; w.wg.Add(1) *)
WgAdd ==
    /\ rpc = "scan"
    /\ lineNo < Len(stdin)
    /\ wg' = wg + 1
    /\ rpc' = "send"
    /\ UNCHANGED <<lineInputCh, done, workers>>
    /\ UNCHANGED <<segVars, trieVars, driverVars, concVars, pooledVars>>

(* w.lineInputCh <- LineInput{lineNo: i, textRunes: []rune(text)}; i++ *)
SendLine ==
    /\ rpc = "send"
    /\ Len(lineInputCh) < NumCPU
    /\ lineInputCh' = Append(lineInputCh, [lineNo |-> lineNo, textRunes |-> stdin[lineNo + 1]])
    /\ lineNo' = lineNo + 1
    /\ rpc' = "scan"
    /\ UNCHANGED <<stdin, result, out>>
    /\ UNCHANGED <<wg, done, workers>>
    /\ UNCHANGED <<segVars, trieVars, concVars, pooledVars>>

(* scanner.Scan() is false; w.wg.Wait() returns when the counter is zero *)
WgWait ==
    /\ rpc = "scan"
    /\ lineNo = Len(stdin)
    /\ wg = 0
    /\ rpc' = "close"
    /\ UNCHANGED <<lineInputCh, wg, done, workers>>
    /\ UNCHANGED <<segVars, trieVars, driverVars, concVars, pooledVars>>

(* close(w.done) *)
CloseDone ==
    /\ rpc = "close"
    /\ done' = TRUE
    /\ rpc' = "writeout"
    /\ UNCHANGED <<lineInputCh, wg, workers>>
    /\ UNCHANGED <<segVars, trieVars, driverVars, concVars, pooledVars>>

(* w.result.WriteOut() *)
WriteOutResult ==
    /\ rpc = "writeout"
    /\ out' = WriteOut(result, 0, out)
    /\ rpc' = "returned"
    /\ UNCHANGED <<stdin, lineNo, result>>
    /\ UNCHANGED <<lineInputCh, wg, done, workers>>
    /\ UNCHANGED <<segVars, trieVars, concVars, pooledVars>>

NextSegmenterWorker ==
    \/ \E wc \in 1..NumCPU : Receive(wc)
    \/ \E wc \in 1..NumCPU : SetResult(wc)
    \/ \E wc \in 1..NumCPU : WgDone(wc)
    \/ \E wc \in 1..NumCPU : WorkerReturn(wc)
    \/ WgAdd
    \/ SendLine
    \/ WgWait
    \/ CloseDone
    \/ WriteOutResult

SpecSegmenterWorker == InitSegmenterWorker /\ [][NextSegmenterWorker]_vars

(* fair scheduling: Run's goroutine and every worker goroutine take a step *)
(* they can take for ever.  For the receive the condition is written out:  *)
(* a worker for ever at its select with a line in the channel receives.    *)
RunStep == WgAdd \/ SendLine \/ WgWait \/ CloseDone \/ WriteOutResult

WorkerStep(wc) == SetResult(wc) \/ WgDone(wc) \/ WorkerReturn(wc)

ReceiveFair(wc) ==
    \/ []<>~(workers[wc].pc = "select" /\ lineInputCh # <<>>)
    \/ []<><<workers[wc].pc = "select" /\ workers'[wc].pc = "set">>_vars

FairSegmenterWorker ==
    /\ SpecSegmenterWorker
    /\ WF_vars(RunStep)
    /\ \A wc \in 1..NumCPU : WF_vars(WorkerStep(wc)) /\ ReceiveFair(wc)

(* ------------------ ConcurrentVersion, SequentialVersion -------------- *)
(* Segment(line, dict) of the function-based program: BuildPath allocates  *)
(* its path and keeps its registers and pointers in locals                 *)
PureSegment(l, trie) ==
    WalkTokens(FlagFoldBuildPath(ResetPath(<<>>, Len(l)), <<>>, ZeroFlags, 0, l, trie),
               l, Len(l))

(* fmt.Fprintln(outbuf, str) *)
Fprintln(outbuf, str) == outbuf \o str \o <<NewLine>>

(* SequentialVersion's loop from line k on *)
RECURSIVE SequentialVersion(_, _, _, _)
SequentialVersion(lines, k, trie, outbuf) ==
    IF k >= Len(lines) THEN outbuf
    ELSE SequentialVersion(lines, k + 1, trie,
             Fprintln(outbuf, JoinTokens(PureSegment(lines[k + 1], trie), Pipe)))

CollectResultInArrivalOrder(r, data) == r @@ (Cardinality(DOMAIN r) :> data.line)

(* CollectResult: result[data.lineNo] = data.line *)
CollectResult(r, data) ==
    [k \in DOMAIN r \cup {data.lineNo} |-> IF k = data.lineNo THEN data.line ELSE r[k]]

(* for j := 0; j < i; j++ { fmt.Fprintln(outbuf, result[j]) } *)
RECURSIVE PrintResult(_, _, _, _)
PrintResult(r, j, n, outbuf) ==
    IF j < n THEN PrintResult(r, j + 1, n, Fprintln(outbuf, ResultAt(r, j))) ELSE outbuf

InitConcurrentVersion ==
    /\ InitSegmenter(PoolWords, "flag")
    /\ TrieIdle
    /\ WorkerIdle
    /\ PooledIdle
    /\ stdin \in Inputs
    /\ lineNo = 0
    /\ result = EmptyResult
    /\ out = <<>>
    /\ chData = <<>>
    /\ goroutines = {}
    /\ cj = 0
    /\ cpc = "spawn"

(* scanner.Scan() is true: go MapSegemnt(i, scanner.Text(), dict, chData); i++ *)
GoMapSegemnt ==
    /\ cpc = "spawn"
    /\ lineNo < Len(stdin)
    /\ goroutines' = goroutines \cup {[lineNo |-> lineNo, line |-> stdin[lineNo + 1]]}
    /\ lineNo' = lineNo + 1
    /\ UNCHANGED <<stdin, result, out>>
    /\ UNCHANGED <<chData, cj, cpc>>
    /\ UNCHANGED <<segVars, trieVars, workerVars, pooledVars>>

(* MapSegemnt: line = strings.Join(Segment(line, dict), "|"); out <- Data   *)
(* the send waits for room in the channel                                  *)
MapSegemnt(g) ==
    /\ g \in goroutines
    /\ Len(chData) < NumCPU
    /\ chData' = Append(chData, [lineNo |-> g.lineNo,
                                 line |-> JoinTokens(PureSegment(g.line, dict), Pipe)])
    /\ goroutines' = goroutines \ {g}
    /\ UNCHANGED <<cj, cpc>>
    /\ UNCHANGED <<segVars, trieVars, driverVars, workerVars, pooledVars>>

(* scanner.Scan() is false: on to the collecting loop *)
BeginCollect ==
    /\ cpc = "spawn"
    /\ lineNo = Len(stdin)
    /\ cj' = 0
    /\ cpc' = "collect"
    /\ UNCHANGED <<chData, goroutines>>
    /\ UNCHANGED <<segVars, trieVars, driverVars, workerVars, pooledVars>>

(* one iteration of `for j := 0; j < i; j++ { CollectResult(result, chData) }` *)
Collect ==
    /\ cpc = "collect"
    /\ cj < lineNo
    /\ chData # <<>>
    /\ result' = CollectResult(result, Head(chData))
    /\ chData' = Tail(chData)
    /\ cj' = cj + 1
    /\ UNCHANGED <<stdin, lineNo, out>>
    /\ UNCHANGED <<goroutines, cpc>>
    /\ UNCHANGED <<segVars, trieVars, workerVars, pooledVars>>

(* the printing loop and outbuf.Flush() *)
PrintAndFlush ==
    /\ cpc = "collect"
    /\ cj = lineNo
    /\ out' = PrintResult(result, 0, lineNo, out)
    /\ cpc' = "returned"
    /\ UNCHANGED <<stdin, lineNo, result>>
    /\ UNCHANGED <<chData, goroutines, cj>>
    /\ UNCHANGED <<segVars, trieVars, workerVars, pooledVars>>

NextConcurrentVersion ==
    \/ GoMapSegemnt
    \/ \E g \in goroutines : MapSegemnt(g)
    \/ BeginCollect
    \/ Collect
    \/ PrintAndFlush

SpecConcurrentVersion == InitConcurrentVersion /\ [][NextConcurrentVersion]_vars

(* ------------- main with a Segmenter pool and a collector ------------- *)
(* BuildPath's loop of the flag-based Segmenter from iteration k on: the   *)
(* scratch it leaves in sm                                                 *)
RECURSIVE FlagBuildPathLoop(_, _, _, _, _, _)
RECURSIVE FlagBuildPathLoopNext(_, _, _, _)
FlagBuildPathLoop(p, ptrs, r, k, l, trie) ==
    IF k >= Len(l) THEN [path |-> p, pointers |-> ptrs, flags |-> r]
    ELSE FlagBuildPathLoopNext(FlagBuildPathIter(p, ptrs, r, k, l[k + 1], Len(l), trie),
                               k, l, trie)

FlagBuildPathLoopNext(n, k, l, trie) ==
    FlagBuildPathLoop(n.path, n.pointers, n.flags, k + 1, l, trie)

(* sm.Segment(textRunes) of the flag-based Segmenter with scratch sm *)
FlagSegment(sm, l, trie) ==
    SegmentWalk(FlagBuildPathLoop(ResetPath(sm.path, Len(l)), ResetPointers(sm.pointers),
                                  ResetFlags(sm.flags), 0, l, trie), l)

(* &Segmenter{dict: dict} *)
NewFlagSegmenter == [path |-> <<>>, pointers |-> <<>>, flags |-> ZeroFlags]

(* result[data.lineNo] = data.line *)
StoreData(r, data) ==
    [k \in DOMAIN r \cup {data.lineNo} |-> IF k = data.lineNo THEN data.line ELSE r[k]]

(* for j := 0; j < i; j++ { WriteString(result[j]); WriteString("\n") } *)
RECURSIVE WriteResult(_, _, _, _)
WriteResult(r, j, n, outbuf) ==
    IF j < n THEN WriteResult(r, j + 1, n, outbuf \o ResultAt(r, j) \o <<NewLine>>)
    ELSE outbuf

InitPooledMainOneSegmenter ==
    /\ InitSegmenter(PoolWords, "flag")
    /\ TrieIdle
    /\ ConcIdle
    /\ stdin \in Inputs
    /\ lineNo = 0
    /\ result = EmptyResult
    /\ out = <<>>
    /\ lineInputCh = <<>>
    /\ wg = 0
    /\ done = FALSE
    /\ workers = <<>>
    /\ rpc = "idle"
    /\ smw = [k \in 1..NumCPU |-> 1]
    /\ segmenters = [k \in 1..NumCPU |-> NewFlagSegmenter]
    /\ segmenting = {}
    /\ collector = "select"
    /\ mpc = "scan"

(* main up to its scanning loop: InitSegmentWorker fills smw with          *)
(* numWorker Segmenters and the collecting goroutine is started            *)
InitPooledMain ==
    /\ InitSegmenter(PoolWords, "flag")
    /\ TrieIdle
    /\ ConcIdle
    /\ stdin \in Inputs
    /\ lineNo = 0
    /\ result = EmptyResult
    /\ out = <<>>
    /\ lineInputCh = <<>>
    /\ wg = 0
    /\ done = FALSE
    /\ workers = <<>>
    /\ rpc = "idle"
    /\ smw = [k \in 1..NumCPU |-> k]
    /\ segmenters = [k \in 1..NumCPU |-> NewFlagSegmenter]
    /\ segmenting = {}
    /\ collector = "select"
    /\ mpc = "scan"

(* scanner.Scan() is true; wg.Add(1); text := scanner.Text() *)
PoolWgAdd ==
    /\ mpc = "scan"
    /\ lineNo < Len(stdin)
    /\ wg' = wg + 1
    /\ mpc' = "take"
    /\ UNCHANGED <<smw, segmenters, segmenting, collector>>
    /\ UNCHANGED <<lineInputCh, done, workers, rpc>>
    /\ UNCHANGED <<segVars, trieVars, driverVars, concVars>>

(* sm := <-smw; go func(sm, i, []rune(text), chData); i++ *)
TakeSegmenter ==
    /\ mpc = "take"
    /\ smw # <<>>
    /\ segmenting' = segmenting \cup
           {[lineNo |-> lineNo, textRunes |-> stdin[lineNo + 1], sm |-> Head(smw),
             pc |-> "segment", line |-> <<>>]}
    /\ smw' = Tail(smw)
    /\ lineNo' = lineNo + 1
    /\ mpc' = "scan"
    /\ UNCHANGED <<segmenters, collector>>
    /\ UNCHANGED <<stdin, result, out>>
    /\ UNCHANGED <<segVars, trieVars, workerVars, concVars>>

Segmented(g, seg) ==
    /\ segmenters' = [segmenters EXCEPT ![g.sm] = seg.sm]
    /\ segmenting' = (segmenting \ {g}) \cup
           {[g EXCEPT !.pc = "send", !.line = JoinTokens(seg.tokens, Pipe)]}

(* line := strings.Join(sm.Segment(textRunes), "|") *)
GoSegment(g) ==
    /\ g \in segmenting
    /\ g.pc = "segment"
    /\ Segmented(g, FlagSegment(segmenters[g.sm], g.textRunes, dict))
    /\ UNCHANGED <<smw, collector, mpc>>
    /\ UNCHANGED <<segVars, trieVars, driverVars, workerVars, concVars>>

(* out <- Data{lineNo: lineNo, line: line}: waits for room in chData *)
GoSendData(g) ==
    /\ g \in segmenting
    /\ g.pc = "send"
    /\ Len(chData) < NumCPU
    /\ chData' = Append(chData, [lineNo |-> g.lineNo, line |-> g.line])
    /\ segmenting' = (segmenting \ {g}) \cup {[g EXCEPT !.pc = "putback"]}
    /\ UNCHANGED <<smw, segmenters, collector, mpc>>
    /\ UNCHANGED <<goroutines, cj, cpc>>
    /\ UNCHANGED <<segVars, trieVars, driverVars, workerVars>>

(* smw <- sm *)
GoPutBack(g) ==
    /\ g \in segmenting
    /\ g.pc = "putback"
    /\ Len(smw) < NumCPU
    /\ smw' = Append(smw, g.sm)
    /\ segmenting' = (segmenting \ {g}) \cup {[g EXCEPT !.pc = "deferred"]}
    /\ UNCHANGED <<segmenters, collector, mpc>>
    /\ UNCHANGED <<segVars, trieVars, driverVars, workerVars, concVars>>

(* the deferred wg.Done(), and the goroutine returns *)
GoWgDone(g) ==
    /\ g \in segmenting
    /\ g.pc = "deferred"
    /\ wg' = wg - 1
    /\ segmenting' = segmenting \ {g}
    /\ UNCHANGED <<smw, segmenters, collector, mpc>>
    /\ UNCHANGED <<lineInputCh, done, workers, rpc>>
    /\ UNCHANGED <<segVars, trieVars, driverVars, concVars>>

(* the collecting goroutine's case data := <-chData *)
CollectorReceive ==
    /\ collector = "select"
    /\ chData # <<>>
    /\ result' = StoreData(result, Head(chData))
    /\ chData' = Tail(chData)
    /\ UNCHANGED <<stdin, lineNo, out>>
    /\ UNCHANGED <<goroutines, cj, cpc>>
    /\ UNCHANGED <<segVars, trieVars, workerVars, pooledVars>>

(* scanner.Scan() is false; wg.Wait() returns when the counter is zero *)
PoolWgWait ==
    /\ mpc = "scan"
    /\ lineNo = Len(stdin)
    /\ wg = 0
    /\ mpc' = "senddone"
    /\ UNCHANGED <<smw, segmenters, segmenting, collector>>
    /\ UNCHANGED <<segVars, trieVars, driverVars, workerVars, concVars>>

(* done <- struct{}{} in main meets the collector's case <-done: the send  *)
(* on the unbuffered channel completes when the select takes that case,    *)
(* which it may do whenever the case is ready, also with data in chData    *)
CollectorDone ==
    /\ mpc = "senddone"
    /\ collector = "select"
    /\ collector' = "returned"
    /\ mpc' = "write"
    /\ UNCHANGED <<smw, segmenters, segmenting>>
    /\ UNCHANGED <<segVars, trieVars, driverVars, workerVars, concVars>>

(* the writing loop and outbuf.Flush() *)
WriteAndFlush ==
    /\ mpc = "write"
    /\ out' = WriteResult(result, 0, lineNo, out)
    /\ mpc' = "returned"
    /\ UNCHANGED <<stdin, lineNo, result>>
    /\ UNCHANGED <<smw, segmenters, segmenting, collector>>
    /\ UNCHANGED <<segVars, trieVars, workerVars, concVars>>

NextPooledMain ==
    \/ PoolWgAdd
    \/ TakeSegmenter
    \/ \E g \in segmenting : GoSegment(g)
    \/ \E g \in segmenting : GoSendData(g)
    \/ \E g \in segmenting : GoPutBack(g)
    \/ \E g \in segmenting : GoWgDone(g)
    \/ CollectorReceive
    \/ PoolWgWait
    \/ CollectorDone
    \/ WriteAndFlush

SpecPooledMain == InitPooledMain /\ [][NextPooledMain]_vars

(* ------------------- the two worker-pool designs ---------------------- *)
(* SegmenterWorker (a Segmenter per worker goroutine) or main with the     *)
(* pool channel of Segmenters                                              *)
InitWorkerPools == InitSegmenterWorker \/ InitPooledMain

NextWorkerPools ==
    \/ rpc # "idle" /\ NextSegmenterWorker
    \/ mpc # "idle" /\ NextPooledMain

SpecWorkerPools == InitWorkerPools /\ [][NextWorkerPools]_vars

(* C4: Segment on a Segmenter that already processed other lines returns   *)
(* the tokens a newly created Segmenter with the same dictionary returns;  *)
(* every scan starts from an all-zero edge array (E[0] the zero sentinel)  *)
(* and an empty pointer list.                                              *)
ScratchHistoryIndependent ==
    /\ pc = "scan" /\ i = 0 =>
          /\ path = [k \in 0..length |-> ZeroEdge]
          /\ pointers = <<>>
    /\ pc = "scan" => path[0] = ZeroEdge
    /\ pc = "done" => ret = FreshSegment(line, impl, dict)

ScratchHistoryIndependentWitness ==
    /\ pc = "done"
    /\ stale
    /\ Len(ret) >= 2
    /\ HasText(line)
    /\ Len(wordList) > 0

ScratchHistoryIndependentFlagWitness ==
    /\ ScratchHistoryIndependentWitness
    /\ impl = "flag"

(* ------------------ the cost model of a partition --------------------- *)
(* cost pairs are <<unk_count, word_count>>, compared lexicographically *)
LexLeq(a, b) == a[1] < b[1] \/ (a[1] = b[1] /\ a[2] <= b[2])

LexMin(S) == CHOOSE a \in S : \A b \in S : LexLeq(a, b)

IsDictWord(ws, slice) == \E j \in 1..Len(ws) : ws[j] = slice

AllText(l) == \A k \in 1..Len(l) : IsText(l[k])

(* [from, to) is a maximal run of Latin letters, or of space codepoints *)
IsLatinRun(l, from, to) ==
    /\ from < to
    /\ \A k \in (from + 1)..to : IsLatin(l[k])
    /\ from = 0 \/ ~IsLatin(l[from])
    /\ to = Len(l) \/ ~IsLatin(l[to + 1])

IsSpaceRun(l, from, to) ==
    /\ from < to
    /\ \A k \in (from + 1)..to : IsSpace(l[k])
    /\ from = 0 \/ ~IsSpace(l[from])
    /\ to = Len(l) \/ ~IsSpace(l[to + 1])

(* the tokens of a partition: a dictionary word or a whole Latin or space  *)
(* run (one word), or an unknown token of Text codepoints (one word and    *)
(* one unknown)                                                            *)
IsKnownToken(l, ws, from, to) ==
    \/ IsDictWord(ws, SubSeq(l, from + 1, to))
    \/ IsLatinRun(l, from, to)
    \/ IsSpaceRun(l, from, to)

IsUnknownToken(l, from, to) ==
    /\ from < to
    /\ \A k \in (from + 1)..to : IsText(l[k])

NoCost(l) == <<Len(l) + 1, Len(l) + 1>>

(* least cost over all partitions of the first k codepoints of l; NoCost   *)
(* when k falls inside a run, where no partition ends                      *)
RECURSIVE OptCost(_, _, _)
OptCost(l, ws, k) ==
    IF k = 0 THEN <<0, 0>>
    ELSE LexMin({NoCost(l)} \cup
                { LET c == OptCost(l, ws, from)
                  IN  IF c = NoCost(l) THEN c
                      ELSE IF IsKnownToken(l, ws, from, k) THEN <<c[1], c[2] + 1>>
                      ELSE <<c[1] + 1, c[2] + 1>>
                  : from \in {f \in 0..(k - 1) :
                                 IsKnownToken(l, ws, f, k) \/ IsUnknownToken(l, f, k)} })

EdgeCost(edge) == <<edge.UnkCount, edge.WordCount>>

(* C5 as stated: (unk_count, word_count) of E[N] is lexicographically      *)
(* minimal among all partitions of the line into dictionary words, whole   *)
(* Latin runs, whole space runs and unknown tokens.                        *)
CostOptimalAsStated ==
    pc = "done" => LexLeq(EdgeCost(path[length]), OptCost(line, wordList, length))

(* C5 amended: for a line of Text codepoints that can be covered by        *)
(* dictionary words alone, E[N] holds no unknown and the least number of   *)
(* dictionary words that cover the line.                                   *)
CostOptimalWhenCovered ==
    pc = "done" /\ AllText(line) /\ OptCost(line, wordList, length)[1] = 0
        => EdgeCost(path[length]) = OptCost(line, wordList, length)

CostOptimalWhenCoveredWitness ==
    /\ pc = "done"
    /\ AllText(line)
    /\ length >= 3
    /\ OptCost(line, wordList, length) = <<0, 2>>
    /\ Len(ret) = 2

(* ------------------- candidates of the last Text step ----------------- *)
(* the last codepoint read is a Text codepoint: pointers is the list the   *)
(* compaction left and path[i] is the edge that iteration wrote            *)
AfterTextStep ==
    /\ pc \in {"scan", "walk", "done"}
    /\ i >= 1
    /\ Len(line) = i
    /\ IsText(line[i])

FinalPointers == {j \in 1..Len(pointers) : pointers[j].IsFinal}

Candidates == {CandidateEdge(pointers[j], path, i - 1) : j \in FinalPointers}

BestCandidates ==
    {c \in Candidates : \A d \in Candidates : LexLeq(EdgeCost(c), EdgeCost(d))}

(* C6 as stated: among candidate edges ending at the same position with    *)
(* equal (unk_count, word_count), the edge written is the longest match    *)
(* (the smallest start).                                                   *)
TieGoesToLongest ==
    AfterTextStep /\ Cardinality(BestCandidates) >= 2
        => \A c \in BestCandidates : path[i].S <= c.S

(* C6 amended: among candidate edges ending at the same position with      *)
(* equal (unk_count, word_count), the edge written is the shortest match   *)
(* (the largest start): the pointer list is walked oldest pointer first.   *)
TieGoesToShortest ==
    AfterTextStep /\ Cardinality(BestCandidates) >= 2
        => /\ path[i] \in BestCandidates
           /\ \A c \in BestCandidates : path[i].S >= c.S

TieGoesToShortestWitness ==
    /\ AfterTextStep
    /\ pc = "scan"
    /\ Cardinality(BestCandidates) >= 2
    /\ path[i].S = i - 1

(* C7 as stated: with the dictionary {"AB", "AC", "D"}, Segment of         *)
(* "ABDAC" returns ["AB", "D", "AC"].                                      *)
Scenario2AsStated ==
    pc = "done" /\ line = Scenario2Line
        => ret = <<<<CapA, CapB>>, <<CapD>>, <<CapA, CapC>>>>

(* C7 amended: with the dictionary {"AB", "AC", "D"}, Segment of "ABDAC"   *)
(* returns the single token ["ABDAC"]: A..D are Latin letters and the line *)
(* is one Latin run.                                                       *)
Scenario2OneLatinRun ==
    pc = "done" /\ line = Scenario2Line
        => /\ ret = <<Scenario2Line>>
           /\ path[length] = [S |-> 0, WordCount |-> 1, UnkCount |-> 0]

Scenario2OneLatinRunWitness ==
    /\ pc = "done"
    /\ line = Scenario2Line
    /\ wordList = <<<<CapA, CapB>>, <<CapA, CapC>>, <<CapD>>>>
    /\ <<0, 0, CapA>> \in DOMAIN dict

(* C8: for a dictionary word w of Text codepoints, Segment(w) is the       *)
(* single token [w], with unk_count 0 and word_count 1, also when w splits *)
(* into shorter dictionary words.                                          *)
DictWordIsOneToken ==
    pc = "done" /\ AllText(line) /\ IsDictWord(wordList, line)
        => /\ ret = <<line>>
           /\ path[length] = [S |-> 0, WordCount |-> 1, UnkCount |-> 0]

DictWordIsOneTokenWitness ==
    /\ pc = "done"
    /\ AllText(line)
    /\ IsDictWord(wordList, line)
    /\ \E k \in 1..(Len(line) - 1) :
          /\ IsDictWord(wordList, SubSeq(line, 1, k))
          /\ IsDictWord(wordList, SubSeq(line, k + 1, Len(line)))

(* ------------------------- token boundaries --------------------------- *)
RECURSIVE TokenEnds(_, _)
TokenEnds(toks, k) ==
    IF k = 0 THEN {0}
    ELSE LET before == TokenEnds(toks, k - 1)
         IN  before \cup {Len(Flatten(SubSeq(toks, 1, k)))}

(* [from, to) is exactly one of the tokens *)
IsToken(toks, from, to) ==
    LET ends == TokenEnds(toks, Len(toks))
    IN  /\ from \in ends
        /\ to \in ends
        /\ \A k \in ends : ~(from < k /\ k < to)

(* C9: each maximal run of Latin letters and each maximal run of space     *)
(* codepoints is exactly one token: no token starts or ends inside a run   *)
(* or mixes a run's codepoints with others.                                *)
RunsAreTokens ==
    pc = "done" =>
        \A from \in 0..length, to \in 0..length :
            IsLatinRun(line, from, to) \/ IsSpaceRun(line, from, to)
                => IsToken(ret, from, to)

(* ------------------------------ trie walk ----------------------------- *)
Absent == [NodeID |-> -1, Offset |-> -1, IsFinal |-> FALSE]

(* the pointer reached from the root by the codepoints of s, Absent when a *)
(* lookup misses                                                           *)
RECURSIVE TrieWalk(_, _, _, _)
TrieWalk(trie, s, k, p) ==
    IF k > Len(s) THEN p
    ELSE LET node == <<p.NodeID, p.Offset, s[k]>>
         IN  IF node \notin DOMAIN trie THEN Absent
             ELSE TrieWalk(trie, s, k + 1,
                      [NodeID |-> trie[node].ChildID,
                       Offset |-> p.Offset + 1,
                       IsFinal |-> trie[node].IsFinal])

(* C10: after each step every live pointer is the trie state reached from  *)
(* the root by the last `depth` codepoints read, so a pointer never        *)
(* survives a codepoint it has no edge for (Latin and space included), and *)
(* every candidate edge covers a slice that is a dictionary word.          *)
PointersTrackInput ==
    pc = "scan" =>
        \A j \in 1..Len(pointers) :
            LET p == pointers[j]
            IN  /\ 1 <= p.Offset /\ p.Offset <= i
                /\ TrieWalk(dict, SubSeq(line, i - p.Offset + 1, i), 1, ZeroPointer) = p
                /\ p.IsFinal => IsDictWord(wordList, SubSeq(line, i - p.Offset + 1, i))

(* --------------------------- runs of a class -------------------------- *)
ClassOf(ch) == IF IsLatin(ch) THEN Latin ELSE IF IsSpace(ch) THEN Space ELSE Text

ExtendLast(runs, ch) == [runs EXCEPT ![Len(runs)] = Append(runs[Len(runs)], ch)]

(* the first k codepoints of l cut into maximal runs of one class *)
RECURSIVE ClassRuns(_, _)
ClassRuns(l, k) ==
    IF k = 0 THEN <<>>
    ELSE IF k > 1 /\ ClassOf(l[k]) = ClassOf(l[k - 1])
         THEN ExtendLast(ClassRuns(l, k - 1), l[k])
         ELSE Append(ClassRuns(l, k - 1), <<l[k]>>)

TextRunCount(l) ==
    Cardinality({k \in 1..Len(l) : IsText(l[k]) /\ (k = 1 \/ ~IsText(l[k - 1]))})

(* C11: with an empty dictionary every maximal run of Text codepoints is   *)
(* exactly one token counted as one unknown (not one per codepoint), and   *)
(* Latin and space runs stay run tokens of their own.                      *)
UnknownRunsCollapse ==
    pc = "done" /\ wordList = <<>> =>
        /\ ret = ClassRuns(line, Len(line))
        /\ path[length].UnkCount = TextRunCount(line)
        /\ path[length].WordCount = Len(ClassRuns(line, Len(line)))

UnknownRunsCollapseWitness ==
    /\ pc = "done"
    /\ wordList = <<>>
    /\ \E k \in 1..(Len(line) - 1) : IsText(line[k]) /\ IsText(line[k + 1])
    /\ HasLatin(line)
    /\ HasSpace(line)
    /\ path[length].UnkCount = 1

(* C17: the trie is immutable at query time: no step of BuildPath or       *)
(* Segment adds, removes or changes an entry of the dictionary mapping,    *)
(* also when a lookup misses.                                              *)
TrieImmutableAtQueryTime == [][dict' = dict]_vars

TrieImmutableAtQueryTimeWitness ==
    /\ pc = "scan"
    /\ i >= 2
    /\ IsText(line[i])
    /\ IsText(line[i - 1])
    /\ Len(wordList) > 0
    /\ pointers = <<>>
    /\ <<0, 0, line[i]>> \notin DOMAIN dict
    /\ <<0, 0, line[i - 1]>> \in DOMAIN dict

(* C18: the number of tokens Segment returns is E[N].word_count of the     *)
(* edge array built for the line.                                          *)
TokenCountIsWordCount ==
    pc = "done" => Len(ret) = path[length].WordCount

TokenCountIsWordCountWitness ==
    /\ pc = "done"
    /\ Len(ret) >= 3
    /\ path[length].UnkCount >= 1
    /\ HasLatin(line)
    /\ Len(wordList) > 0
    /\ \E k \in 1..Len(ret) : IsDictWord(wordList, ret[k])

(* --------------------- the tree MakePrefixTree built ------------------ *)
(* the pointer the first m codepoints of w lead to from node 0 at depth 0 *)
PrefixPointer(trie, w, m) == TrieWalk(trie, SubSeq(w, 1, m), 1, ZeroPointer)

HasPrefix(w, p) == Len(w) >= Len(p) /\ SubSeq(w, 1, Len(p)) = p

(* 0-based index of the first word of ws that starts with p *)
FirstWithPrefix(ws, p) ==
    (CHOOSE k \in 1..Len(ws) :
        /\ HasPrefix(ws[k], p)
        /\ \A j \in 1..(k - 1) : ~HasPrefix(ws[j], p)) - 1

PrefixesOf(ws) ==
    UNION {{SubSeq(ws[k], 1, m) : m \in 1..Len(ws[k])} : k \in 1..Len(ws)}

Inserting == tpc \in {"insert", "returned"}

(* C12: walking the trie from node 0 at depth 0 along the codepoints of a  *)
(* listed word finds a transition at every step, and the transition of the *)
(* last codepoint has IsFinal true.                                        *)
WordsReachFinal ==
    Inserting =>
        \A k \in 1..wi :
            /\ \A m \in 1..Len(wordsWithPayload[k]) :
                  PrefixPointer(tab, wordsWithPayload[k], m) # Absent
            /\ PrefixPointer(tab, wordsWithPayload[k], Len(wordsWithPayload[k])).IsFinal

WordsReachFinalWitness ==
    /\ tpc = "returned"
    /\ wi = MaxTrieWords
    /\ wordsWithPayload[1] # wordsWithPayload[2]
    /\ HasPrefix(wordsWithPayload[2], wordsWithPayload[1])
    /\ ~HasPrefix(wordsWithPayload[3], wordsWithPayload[1])

(* C13: for a strict prefix p of a listed word, p not itself listed, the   *)
(* transition reached by the last codepoint of p has IsFinal false.        *)
StrictPrefixNotFinal ==
    Inserting =>
        \A k \in 1..wi : \A m \in 1..(Len(wordsWithPayload[k]) - 1) :
            ~IsDictWord(wordsWithPayload, SubSeq(wordsWithPayload[k], 1, m))
                => /\ PrefixPointer(tab, wordsWithPayload[k], m) # Absent
                   /\ ~PrefixPointer(tab, wordsWithPayload[k], m).IsFinal

StrictPrefixNotFinalWitness ==
    /\ tpc = "returned"
    /\ wi = MaxTrieWords
    /\ \E k \in 1..wi :
          /\ Len(wordsWithPayload[k]) = 2
          /\ ~IsDictWord(wordsWithPayload, SubSeq(wordsWithPayload[k], 1, 1))
    /\ \E k \in 1..wi :
          /\ Len(wordsWithPayload[k]) = 2
          /\ IsDictWord(wordsWithPayload, SubSeq(wordsWithPayload[k], 1, 1))

(* C14: the child id stored on a transition is the index, in the sorted    *)
(* word list, of the first word whose insertion created it, so words that  *)
(* share a prefix follow the same transitions up to where they diverge;    *)
(* the mapping holds one transition per distinct non-empty prefix.         *)
ChildIdIsFirstWord ==
    /\ Inserting =>
          \A k \in 1..wi : \A m \in 1..Len(wordsWithPayload[k]) :
              /\ PrefixPointer(tab, wordsWithPayload[k], m).NodeID
                    = FirstWithPrefix(wordsWithPayload, SubSeq(wordsWithPayload[k], 1, m))
              /\ PrefixPointer(tab, wordsWithPayload[k], m).Offset = m
    /\ tpc = "returned" =>
          Cardinality(DOMAIN tab) = Cardinality(PrefixesOf(wordsWithPayload))

ChildIdIsFirstWordWitness ==
    /\ tpc = "returned"
    /\ wi = MaxTrieWords
    /\ Len(wordsWithPayload[2]) = 2
    /\ Len(wordsWithPayload[3]) = 2
    /\ wordsWithPayload[2][1] = wordsWithPayload[3][1]
    /\ wordsWithPayload[2][2] # wordsWithPayload[3][2]
    /\ ~HasPrefix(wordsWithPayload[2], wordsWithPayload[1])
    /\ PrefixPointer(tab, wordsWithPayload[3], 1).NodeID = 1
    /\ PrefixPointer(tab, wordsWithPayload[3], 2).NodeID = 2

Permuted(ws, f) == [k \in 1..Len(ws) |-> ws[f[k]]]

Reversed(ws) == [k \in 1..Len(ws) |-> ws[Len(ws) + 1 - k]]

(* C15: MakePrefixTree returns the same mapping (keys, child ids, IsFinal  *)
(* flags) for every permutation of the word list.                          *)
OrderInsensitive ==
    tpc = "returned" =>
        \A f \in Permutations(1..Len(wordsWithPayload)) :
            MakePrefixTree(Permuted(wordsWithPayload, f)) = tab

OrderInsensitiveWitness ==
    /\ tpc = "returned"
    /\ wi = MaxTrieWords
    /\ InsertWords(EmptyTab, Reversed(wordsWithPayload), 0) # tab
    /\ MakePrefixTree(Reversed(wordsWithPayload)) = tab

(* the words of ws, each once, in order of first occurrence *)
RECURSIVE Dedup(_)
Dedup(ws) ==
    IF Len(ws) = 0 THEN <<>>
    ELSE IF IsDictWord(SubSeq(ws, 1, Len(ws) - 1), ws[Len(ws)])
         THEN Dedup(SubSeq(ws, 1, Len(ws) - 1))
         ELSE Append(Dedup(SubSeq(ws, 1, Len(ws) - 1)), ws[Len(ws)])

MaxQueryLen == 3
QueryLines == SeqsUpTo(TextAlphabet \cup {Blank}, MaxQueryLen)

(* Segment returns the same tokens against both tries, for every line *)
SameTokens(trie, other) ==
    \/ trie = other
    \/ \A l \in QueryLines : \A variant \in Variants :
          FreshSegment(l, variant, trie) = FreshSegment(l, variant, other)

(* C16: Segment against the trie of a word list with repeated words        *)
(* returns, for every line, the tokens it returns against the trie of the  *)
(* list without repetitions, and every word is still reached with a final  *)
(* last transition.                                                        *)
DuplicatesHarmless ==
    tpc = "returned" =>
        /\ SameTokens(tab, MakePrefixTree(Dedup(wordsWithPayload)))
        /\ \A k \in 1..Len(wordsWithPayload) :
              /\ PrefixPointer(tab, wordsWithPayload[k], Len(wordsWithPayload[k])) # Absent
              /\ PrefixPointer(tab, wordsWithPayload[k], Len(wordsWithPayload[k])).IsFinal

DuplicatesHarmlessWitness ==
    /\ tpc = "returned"
    /\ wi = MaxTrieWords
    /\ wordsWithPayload[1] = wordsWithPayload[2]
    /\ wordsWithPayload[3] # wordsWithPayload[2]
    /\ tab # MakePrefixTree(Dedup(wordsWithPayload))
    /\ \E l \in QueryLines : Len(FreshSegment(l, "word", tab)) = 2 /\ Len(l) = 3

(* ------------------------- the drivers' output ------------------------ *)
CountOf(str, ch) == Cardinality({k \in 1..Len(str) : str[k] = ch})

(* the tokens of line l joined by '|' and ended by a newline *)
OutputLine(l, variant, trie) ==
    JoinTokens(FreshSegment(l, variant, trie), Pipe) \o <<NewLine>>

(* the output lines of the first k lines, in input order *)
RECURSIVE OutputInOrder(_, _, _, _)
OutputInOrder(lines, k, variant, trie) ==
    IF k = 0 THEN <<>>
    ELSE OutputInOrder(lines, k - 1, variant, trie) \o OutputLine(lines[k], variant, trie)

WorkersAt(pcs) == {wc \in DOMAIN workers : workers[wc].pc \in pcs}

(* Run or a worker goroutine can take a step *)
WorkerCanStep ==
    \/ \E wc \in DOMAIN workers :
          \/ workers[wc].pc = "select" /\ (lineInputCh # <<>> \/ done)
          \/ workers[wc].pc \in {"set", "wgdone"}
    \/ rpc = "scan" /\ (lineNo < Len(stdin) \/ wg = 0)
    \/ rpc = "send" /\ Len(lineInputCh) < NumCPU
    \/ rpc \in {"close", "writeout"}

(* C19: for every input of n lines and every interleaving of the worker    *)
(* goroutines, Run writes exactly n output lines and output line j is the  *)
(* tokens of input line j joined by a single '|': every line handed out is *)
(* in exactly one place (the channel, a worker, the result map), so it is  *)
(* segmented once, the lines are written in input order, and Run never     *)
(* blocks before it has written them.                                      *)
OutputInLineOrder ==
    /\ rpc # "returned" => WorkerCanStep
    /\ Len(lineInputCh) + Cardinality(WorkersAt({"set"})) + Cardinality(DOMAIN result) = lineNo
    /\ wg = (IF rpc = "send" THEN 1 ELSE 0) + Len(lineInputCh)
              + Cardinality(WorkersAt({"set", "wgdone"}))
    /\ \A k \in DOMAIN result :
          /\ k \in 0..(lineNo - 1)
          /\ result[k] = OutputLine(stdin[k + 1], "word", dict)
    /\ rpc \in {"close", "writeout", "returned"} => DOMAIN result = 0..(Len(stdin) - 1)
    /\ rpc = "returned" =>
          /\ out = OutputInOrder(stdin, Len(stdin), "word", dict)
          /\ CountOf(out, NewLine) = Len(stdin)

OutputInLineOrderWitness ==
    /\ rpc = "returned"
    /\ Len(stdin) = MaxInputLines
    /\ \A j \in 1..Len(stdin), k \in 1..Len(stdin) : j # k => stdin[j] # stdin[k]
    /\ workers[1].pc = "returned"
    /\ workers[1].lineInput.lineNo = 0
    /\ workers[1].sm.path # <<>>
    /\ workers[2].lineInput.lineNo = Len(stdin) - 1
    /\ CountOf(out, Pipe) >= 2

(* a later line reaches the result map before an earlier one *)
OutOfOrderCompletion ==
    /\ 1 \in DOMAIN result
    /\ 0 \notin DOMAIN result

(* some goroutine of the ConcurrentVersion program can take a step *)
ConcurrentCanStep ==
    \/ cpc = "spawn"
    \/ goroutines # {} /\ Len(chData) < NumCPU
    \/ cpc = "collect" /\ cj < lineNo /\ chData # <<>>
    \/ cpc = "collect" /\ cj = lineNo

(* C20: for every input and every goroutine interleaving,                  *)
(* ConcurrentVersion (one goroutine per line, results collected from a     *)
(* channel into a map keyed by line number) writes, line for line, the     *)
(* output of SequentialVersion, and never blocks before it has written it. *)
ConcurrentIsSequential ==
    /\ cpc = "returned" => out = SequentialVersion(stdin, 0, dict, <<>>)
    /\ \A k \in DOMAIN result :
          /\ k \in 0..(lineNo - 1)
          /\ result[k] = JoinTokens(PureSegment(stdin[k + 1], dict), Pipe)
    /\ Cardinality(goroutines) + Len(chData) + Cardinality(DOMAIN result) = lineNo
    /\ cpc # "returned" => ConcurrentCanStep

ConcurrentIsSequentialWitness ==
    /\ cpc = "returned"
    /\ Len(stdin) = MaxInputLines
    /\ \A j \in 1..Len(stdin), k \in 1..Len(stdin) : j # k => stdin[j] # stdin[k]
    /\ CountOf(out, NewLine) = MaxInputLines
    /\ CountOf(out, Pipe) >= 2

(* the goroutine of a later line sends before the one of an earlier line *)
OutOfOrderArrival ==
    /\ cpc = "collect"
    /\ Len(chData) >= 2
    /\ chData[1].lineNo > chData[2].lineNo

(* ------------------------- the chain of edges ------------------------- *)
(* cell k names an earlier cell as its start and counts one word more than *)
(* that cell holds now                                                     *)
ChainsBack(p, k) ==
    /\ 0 <= p[k].S
    /\ p[k].S < k
    /\ p[p[k].S].WordCount + 1 = p[k].WordCount

(* C21: after BuildPath (and after every iteration of its loop, for the    *)
(* cells written so far, provisional cells inside runs included) every     *)
(* cell k >= 1 has E[k].start < k and E[E[k].start].word_count + 1 =       *)
(* E[k].word_count: a cell is never overwritten after another cell was     *)
(* computed from it.                                                       *)
EdgesChainBack ==
    /\ pc = "scan" => \A k \in 1..i : ChainsBack(path, k)
    /\ pc \in {"walk", "done"} => \A k \in 1..length : ChainsBack(path, k)

(* a run edge replaced a provisional cell, a run of two or more codepoints *)
(* left a provisional cell inside it, and a dictionary word was matched    *)
EdgesChainBackWitness ==
    /\ pc = "done"
    /\ length >= 4
    /\ \E k \in 1..(length - 1) :
          /\ IsLatin(line[k]) /\ IsLatin(line[k + 1])
          /\ path[k].UnkCount > path[k + 1].UnkCount
    /\ \E k \in 1..(length - 1) : IsLatin(line[k]) /\ IsText(line[k + 1])
    /\ \E k \in 1..Len(ret) : AllText(ret[k]) /\ IsDictWord(wordList, ret[k])

(* C22: in every state of the scan (and of the walk that follows) every    *)
(* cell of the edge array has 0 <= unk_count <= word_count.                *)
UnkAtMostWords ==
    pc \in {"scan", "walk", "done"} =>
        \A k \in DOMAIN path :
            /\ 0 <= path[k].UnkCount
            /\ path[k].UnkCount <= path[k].WordCount

(* mid-scan, one written cell where the two counts are equal and positive  *)
(* and one where a known word made them differ                             *)
UnkAtMostWordsWitness ==
    /\ pc = "scan"
    /\ i >= 3
    /\ i < length
    /\ \E k \in 1..i : path[k].UnkCount = path[k].WordCount
    /\ \E k \in 1..i : path[k].UnkCount >= 1 /\ path[k].UnkCount < path[k].WordCount

(* ---------------------- the edge a step writes ------------------------ *)
(* word.Left, or sm.leftBoundary of the flag-based Segmenter *)
LeftBoundary == IF impl = "word" THEN word.Left ELSE flags.leftBoundary

(* the unknown fallback from cell left: one more word, one more unknown *)
UnknownFallback(p, left) ==
    [S |-> left,
     WordCount |-> PathAt(p, left).WordCount + 1,
     UnkCount |-> PathAt(p, left).UnkCount + 1]

IsFallbackEdge(p, k) == p[k] = UnknownFallback(p, p[k].S)

(* C23: after a step on a Text codepoint that left a final pointer, the    *)
(* edge written is a candidate of a final pointer whose (unk_count,        *)
(* word_count) is least among the candidates of that step, and the left    *)
(* boundary is the position after the codepoint; the unknown fallback      *)
(* (start = left boundary, one more word, one more unknown, boundary not   *)
(* moved to the new position) is written exactly when the step formed no   *)
(* candidate and no end-of-line run edge.                                  *)
BestEdgeRule ==
    pc = "scan" /\ i >= 1 =>
        /\ IsText(line[i]) /\ FinalPointers # {} =>
              /\ path[i] \in BestCandidates
              /\ ~IsFallbackEdge(path, i)
              /\ LeftBoundary = i
        /\ ~IsText(line[i]) /\ i = length => ~IsFallbackEdge(path, i)
        /\ \/ IsText(line[i]) /\ FinalPointers = {}
           \/ ~IsText(line[i]) /\ i < length
           => /\ LeftBoundary < i
              /\ path[i] = UnknownFallback(path, LeftBoundary)

(* two candidates of different cost were formed, the cheaper one was       *)
(* written, and an earlier cell of the line holds an unknown fallback      *)
BestEdgeRuleWitness ==
    /\ pc = "scan"
    /\ i >= 2
    /\ IsText(line[i])
    /\ Cardinality(Candidates) >= 2
    /\ BestCandidates # Candidates
    /\ path[i] \in BestCandidates
    /\ \E k \in 1..(i - 1) : IsText(line[k]) /\ IsFallbackEdge(path, k)

(* the slice [s, k) of the line read so far is a dictionary word of Text   *)
(* codepoints                                                              *)
TextWordAt(s, k) ==
    /\ AllText(SubSeq(line, s + 1, k))
    /\ IsDictWord(wordList, SubSeq(line, s + 1, k))

(* C24: the live match set is complete: after the step on a Text           *)
(* codepoint, for every s such that the slice from s to the position after *)
(* the codepoint is a dictionary word of Text codepoints, the pointer list *)
(* holds a final pointer of that slice's length, and the candidate edge    *)
(* with start s is among the candidates evaluated.                         *)
LiveMatchesComplete ==
    pc = "scan" /\ i >= 1 /\ IsText(line[i]) =>
        \A s \in 0..(i - 1) :
            TextWordAt(s, i) =>
                /\ \E j \in 1..Len(pointers) :
                      pointers[j].Offset = i - s /\ pointers[j].IsFinal
                /\ \E c \in Candidates : c.S = s

(* two dictionary words end at the same position, and an older pointer     *)
(* was dropped at an earlier step                                          *)
LiveMatchesCompleteWitness ==
    /\ pc = "scan"
    /\ i >= 3
    /\ IsText(line[i])
    /\ Cardinality({s \in 0..(i - 1) : TextWordAt(s, i)}) >= 2
    /\ Len(pointers) = 2
    /\ ~TextWordAt(0, 1)

(* C25: after the scan, at every position where a maximal Latin or space   *)
(* run ends (at a class change or at the end of the line) the cell holds   *)
(* the run edge: start = the run's first index, word_count one more than   *)
(* the run start's cell, unk_count equal to it; so a line of only Latin    *)
(* letters ends with E[N] = (0, 1, 0).                                     *)
RunEdgesWritten ==
    pc \in {"walk", "done"} =>
        /\ \A from \in 0..length, to \in 0..length :
              IsLatinRun(line, from, to) \/ IsSpaceRun(line, from, to)
                  => path[to] = RunEdge(path, from)
        /\ length >= 1 /\ (\A k \in 1..length : IsLatin(line[k]))
              => path[length] = [S |-> 0, WordCount |-> 1, UnkCount |-> 0]

(* a Latin run of two codepoints that ends at a class change, after a      *)
(* Text codepoint counted as unknown, and a space run at the end of line   *)
RunEdgesWrittenWitness ==
    /\ pc = "done"
    /\ length = 4
    /\ Len(wordList) > 0
    /\ IsText(line[1])
    /\ IsLatinRun(line, 1, 3)
    /\ IsSpaceRun(line, 3, 4)
    /\ path[3] = [S |-> 1, WordCount |-> 2, UnkCount |-> 1]
    /\ path[4] = [S |-> 3, WordCount |-> 3, UnkCount |-> 1]

(* a line of only Latin letters with a non-empty dictionary *)
RunEdgesWrittenLatinLine ==
    /\ pc = "done"
    /\ length >= 2
    /\ \A k \in 1..length : IsLatin(line[k])
    /\ Len(wordList) > 0

(* --------------------- what the drivers should write ------------------ *)
(* the '|'-joined segmentation of line k of the input, newline-terminated, *)
(* for lines k+1..n                                                        *)
RECURSIVE ExpectedOutput(_, _, _)
ExpectedOutput(lines, k, variant) ==
    IF k >= Len(lines) THEN <<>>
    ELSE JoinTokens(FreshSegment(lines[k + 1], variant, dict), Pipe) \o <<NewLine>>
         \o ExpectedOutput(lines, k + 1, variant)

(* C26: in the driver with a collecting goroutine every Data value sent is *)
(* in the result map before main starts writing, so for every interleaving *)
(* output line j is the '|'-joined segmentation of input line j and no     *)
(* line is empty because its result was not collected.                     *)
CollectedBeforeWrite ==
    /\ mpc \in {"write", "returned"} =>
          /\ chData = <<>>
          /\ DOMAIN result = 0..(Len(stdin) - 1)
    /\ mpc = "returned" => out = ExpectedOutput(stdin, 0, "flag")

(* ------------------------ who holds a Segmenter ----------------------- *)
(* how many times Segmenter k is in the pool channel *)
InPool(k) == Cardinality({j \in 1..Len(smw) : smw[j] = k})

(* the goroutines that took Segmenter k and have not put it back *)
HeldBy(k) == {g \in segmenting : g.sm = k /\ g.pc \in {"segment", "send", "putback"}}

ScratchHeldOnce ==
    mpc # "idle" =>
        \A k \in DOMAIN segmenters : InPool(k) + Cardinality(HeldBy(k)) = 1

(* a step changes the scratch of pooled Segmenter k only as the Segment    *)
(* call of the one goroutine holding k                                     *)
PooledScratchStep ==
    \A k \in DOMAIN segmenters :
        segmenters'[k] # segmenters[k] =>
            /\ InPool(k) = 0
            /\ \E g \in segmenting : g.pc = "segment" /\ HeldBy(k) = {g}

(* a step changes the scratch of worker wc's Segmenter only as that        *)
(* worker's own Segment call, and touches no other worker                  *)
WorkerScratchStep ==
    \A wc \in DOMAIN workers :
        workers'[wc].sm # workers[wc].sm =>
            /\ workers[wc].pc = "select"
            /\ workers'[wc].pc = "set"
            /\ \A o \in DOMAIN workers \ {wc} : workers'[o] = workers[o]

(* C27: in every reachable state of the worker pool a Segmenter's scratch  *)
(* is used by at most one goroutine: each worker goroutine's Segmenter is  *)
(* changed by that goroutine only, and a pooled Segmenter is either in the *)
(* pool channel or held by exactly one goroutine, which alone changes it   *)
(* until it has put it back.                                               *)
ScratchUsedByOne ==
    /\ []ScratchHeldOnce
    /\ [][PooledScratchStep /\ WorkerScratchStep]_vars

(* both pooled Segmenters are out, each with scratch of an earlier line,   *)
(* and main waits at the pool channel for one to come back                 *)
ScratchUsedByOneWitness ==
    /\ mpc = "take"
    /\ smw = <<>>
    /\ Cardinality(segmenting) = 2
    /\ \A g \in segmenting : g.pc \in {"segment", "send"}
    /\ \A k \in DOMAIN segmenters : segmenters[k].path # <<>>
    /\ \E g, h \in segmenting : g.sm # h.sm

(* two worker goroutines hold results computed with their own reused       *)
(* scratch at the same time                                                *)
ScratchUsedByOneWorkerWitness ==
    /\ rpc # "idle"
    /\ lineNo = 3
    /\ \A wc \in DOMAIN workers : workers[wc].pc = "set"
    /\ \E wc \in DOMAIN workers : workers[wc].lineInput.lineNo = 2

(* C28: under fair scheduling, for every input of zero to MaxInputLines    *)
(* lines (more than the channel holds), SegmenterWorker.Run never          *)
(* deadlocks: a send on lineInputCh completes and the line sent is         *)
(* received and its result stored, wg.Wait returns, done is closed only    *)
(* after every line's result has been stored, and then Run returns and     *)
(* every worker goroutine exits.                                           *)
RunNeverDeadlocks ==
    /\ [](done => /\ lineInputCh = <<>>
                  /\ DOMAIN result = 0..(Len(stdin) - 1))
    /\ (rpc = "send") ~> (rpc = "scan")
    /\ \A k \in 0..(MaxInputLines - 1) : (lineNo > k) ~> (k \in DOMAIN result)
    /\ <>(rpc = "close")
    /\ <>(rpc = "returned" /\ \A wc \in 1..NumCPU : workers[wc].pc = "returned")

(* Run waits at the send of a line beyond the channel's capacity: the      *)
(* channel is full and no worker has received yet                          *)
RunNeverDeadlocksWitness ==
    /\ rpc = "send"
    /\ Len(lineInputCh) = NumCPU
    /\ lineNo = NumCPU
    /\ Len(stdin) > NumCPU
    /\ wg = NumCPU + 1
    /\ result = EmptyResult

(* C29: in every state of the scan the live pointer list holds no two      *)
(* equal (node_id, depth) pointers: the depths are pairwise distinct and   *)
(* strictly decrease from the front of the list to the back.               *)
PointerDepthsDecrease ==
    pc \in {"scan", "walk", "done"} =>
        \A j \in 1..Len(pointers), k \in 1..Len(pointers) :
            j < k =>
                /\ pointers[j].Offset > pointers[k].Offset
                /\ <<pointers[j].NodeID, pointers[j].Offset>>
                       # <<pointers[k].NodeID, pointers[k].Offset>>

(* two live pointers after a Text step, the older of which was spawned     *)
(* before a Latin or space codepoint of the line                           *)
PointerDepthsDecreaseWitness ==
    /\ pc = "scan"
    /\ i >= 3
    /\ IsText(line[i])
    /\ ~IsText(line[i - 1])
    /\ Len(pointers) = 2
    /\ pointers[1].Offset = 2
    /\ pointers[2].Offset = 1

(* the step of the outer loop that inserts word number wi *)
InsertsWord == tpc = "insert" /\ wi < Len(wordsWithPayload) /\ wi' = wi + 1

(* every key present before the step is present after it with the same    *)
(* child id and IsFinal                                                    *)
StoredValuesKept ==
    \A node \in DOMAIN tab : node \in DOMAIN tab' /\ tab'[node] = tab[node]

(* along the word inserted, a prefix that already had a transition keeps   *)
(* it, and the first new transition is stored under the child id of the    *)
(* last existing one, so the whole word can be walked afterwards           *)
WalkContinuesFromStored(w) ==
    \A m \in 1..Len(w) :
        IF PrefixPointer(tab, w, m) # Absent
        THEN PrefixPointer(tab', w, m) = PrefixPointer(tab, w, m)
        ELSE PrefixPointer(tab', w, m) =
                 [NodeID |-> wi, Offset |-> m, IsFinal |-> (m = Len(w))]

(* C30: during trie construction, a step of a word that finds its key      *)
(* (row, depth, codepoint) present leaves the stored value as it is (child *)
(* id and IsFinal) and continues from the stored child id; an IsFinal flag *)
(* once true is never cleared by a later word.                             *)
ExistingKeysKept ==
    [][InsertsWord =>
           /\ StoredValuesKept
           /\ WalkContinuesFromStored(wordsWithPayload[wi + 1])]_vars

(* the word inserted last walked over the final transition of a shorter    *)
(* listed word and added a transition of its own below it                  *)
ExistingKeysKeptWitness ==
    /\ tpc = "insert"
    /\ wi >= 2
    /\ \E k \in 1..(wi - 1) :
          /\ Len(wordsWithPayload[k]) < Len(wordsWithPayload[wi])
          /\ HasPrefix(wordsWithPayload[wi], wordsWithPayload[k])
          /\ PrefixPointer(tab, wordsWithPayload[k], Len(wordsWithPayload[k])).IsFinal
          /\ PrefixPointer(tab, wordsWithPayload[k], Len(wordsWithPayload[k])).NodeID = k - 1
    /\ PrefixPointer(tab, wordsWithPayload[wi], Len(wordsWithPayload[wi])).NodeID = wi - 1

(* ------------------- strings the trie is asked about ------------------ *)
(* the non-empty codepoint strings of up to one codepoint more than the    *)
(* longest word                                                            *)
TrieStrings == SeqsUpTo(TextAlphabet, MaxTrieWordLen + 1) \ {<<>>}

(* the walk along s finds a transition at every step and the last is final *)
Recognises(trie, s) == PrefixPointer(trie, s, Len(s)).IsFinal

Listed(s) == \E k \in 1..wi : wordsWithPayload[k] = s

(* C31: the trie recognises no word outside the list: a string whose walk  *)
(* from node 0 at depth 0 finds a transition at every step, the last one   *)
(* final, is a word of the list; two distinct prefixes never lead to the   *)
(* same (node_id, depth) pair.                                             *)
NoSpuriousWord ==
    Inserting =>
        /\ \A s \in TrieStrings : Recognises(tab, s) => Listed(s)
        /\ \A p \in PrefixesOf(SubSeq(wordsWithPayload, 1, wi)),
              q \in PrefixesOf(SubSeq(wordsWithPayload, 1, wi)) :
              p # q =>
                  <<PrefixPointer(tab, p, Len(p)).NodeID, Len(p)>>
                      # <<PrefixPointer(tab, q, Len(q)).NodeID, Len(q)>>

(* three distinct words built: two of full length that start with          *)
(* different codepoints, so that a one-row table would join their paths,   *)
(* and a walkable prefix that is not listed                                *)
NoSpuriousWordWitness ==
    /\ tpc = "returned"
    /\ wi = 3
    /\ \A j \in 1..wi, k \in 1..wi : j # k => wordsWithPayload[j] # wordsWithPayload[k]
    /\ \E j \in 1..wi, k \in 1..wi :
          /\ Len(wordsWithPayload[j]) = 2
          /\ Len(wordsWithPayload[k]) = 2
          /\ wordsWithPayload[j][1] # wordsWithPayload[k][1]
          /\ wordsWithPayload[j][2] # wordsWithPayload[k][2]
    /\ \E s \in TrieStrings :
          /\ PrefixPointer(tab, s, Len(s)) # Absent
          /\ ~Recognises(tab, s)
          /\ ~Listed(s)

(* ------------------------ the scanners compared ----------------------- *)
OtherVariant == IF impl = "word" THEN "flag" ELSE "word"

(* the edge array of the function-based BuildPath, whose registers are     *)
(* locals that start at their zero values                                  *)
PureBuildPath(l, trie) ==
    FlagFoldBuildPath(ResetPath(<<>>, Len(l)), <<>>, ZeroFlags, 0, l, trie)

(* C32: the Word-struct scanner and the flag-based scanner (as a method on *)
(* the Segmenter and as the function with local registers) leave, for      *)
(* every line and dictionary, the same (start, word_count, unk_count) at   *)
(* every index of the edge array, and Segment returns the same tokens.     *)
ScannersAgree ==
    /\ pc \in {"walk", "done"} =>
          /\ path = FreshBuildPath(line, OtherVariant, dict)
          /\ path = PureBuildPath(line, dict)
    /\ pc = "done" =>
          /\ ret = FreshSegment(line, OtherVariant, dict)
          /\ ret = PureSegment(line, dict)

(* the Word-struct scanner, on reused scratch, finished a line with a      *)
(* space run followed by a Latin run and a Text codepoint matched by the   *)
(* dictionary                                                              *)
ScannersAgreeWitness ==
    /\ pc = "done"
    /\ impl = "word"
    /\ stale
    /\ length = 4
    /\ \E k \in 1..(length - 1) : IsSpace(line[k]) /\ IsLatin(line[k + 1])
    /\ \E k \in 1..Len(ret) : AllText(ret[k]) /\ IsDictWord(wordList, ret[k])
    /\ path[length].UnkCount >= 1

(* the same for the flag-based scanner, with a Latin run before a space *)
ScannersAgreeFlagWitness ==
    /\ pc = "done"
    /\ impl = "flag"
    /\ stale
    /\ length = 4
    /\ \E k \in 1..(length - 1) : IsLatin(line[k]) /\ IsSpace(line[k + 1])
    /\ \E k \in 1..Len(ret) : AllText(ret[k]) /\ IsDictWord(wordList, ret[k])

(* the codepoint length of the longest word of the list, 0 for no word *)
LongestWord(ws) ==
    IF Len(ws) = 0 THEN 0
    ELSE CHOOSE n \in {Len(ws[k]) : k \in 1..Len(ws)} :
             \A k \in 1..Len(ws) : Len(ws[k]) <= n

(* C33: after the compaction at each Text codepoint (and in every state    *)
(* until the next one) the live pointer list holds at most as many         *)
(* pointers as the longest dictionary word has codepoints, and every       *)
(* retained pointer has a depth between 1 and that length.                 *)
PointersBoundedByLongestWord ==
    pc \in {"scan", "walk", "done"} =>
        /\ Len(pointers) <= LongestWord(wordList)
        /\ \A j \in 1..Len(pointers) :
              /\ 1 <= pointers[j].Offset
              /\ pointers[j].Offset <= LongestWord(wordList)

(* after a Text codepoint the list is as long as the longest word, the     *)
(* oldest pointer as deep as it, and an earlier Text codepoint left no     *)
(* pointer of full depth                                                   *)
PointersBoundedByLongestWordWitness ==
    /\ pc = "scan"
    /\ i >= 3
    /\ IsText(line[i])
    /\ IsText(line[i - 1])
    /\ IsText(line[i - 2])
    /\ LongestWord(wordList) = 2
    /\ Len(pointers) = 2
    /\ pointers[1].Offset = 2
    /\ ~IsDictWord(wordList, SubSeq(line, i - 2, i - 1))

====
